---- MODULE Spec2Model ----
(***************************************************************************)
(* Model of civitAI_Model_downloader.py: the download engine               *)
(* (download_file_or_image), the per-version task (download_model_files),  *)
(* the summary walk (fetch_all_models) and the download walk with its      *)
(* worker pool (process_username).                                         *)
(*                                                                         *)
(* A Python string is a sequence of one-character strings, so that suffix  *)
(* tests, os.path.splitext, os.path.join and sanitize_name are computed    *)
(* the way the code computes them.  None is a value of its own.            *)
(***************************************************************************)
EXTENDS Integers, Sequences, FiniteSets, TLC

VARIABLES
  cfg,      \* module globals set from the command line (lines 55-76)
  remote,   \* the environment: the catalog served to each walk, the responses, the platform
  fs,       \* the filesystem: path -> content of the file at that path
  reqs,     \* download requests issued so far (session.get, line 144)
  errlog,   \* logs/<username>.download_errors.log, one entry per line
  failed,   \* logs/failed_downloads_<username>.txt, one entry per line
  wk,       \* per worker thread: locals of download_model_files and of download_file_or_image
  orch,     \* main thread: locals of process_username and of fetch_all_models
  pool      \* the page's ThreadPoolExecutor: queued and finished tasks

vars == <<cfg, remote, fs, reqs, errlog, failed, wk, orch, pool>>

-----------------------------------------------------------------------------
(* Bounds of the model *)

\* largest --max_tries the model draws (line 36)
MaxTries == 2
\* largest --max_threads the model draws (line 37)
MaxThreads == 2
\* catalog page requests a run may issue before the model stops following it
MaxPageReqs == 5
\* longest name given to sanitize_name on its own
MaxNameLen == 4

-----------------------------------------------------------------------------
(* Python values *)

None == <<"None">>

\* truth value of a string-or-None (None and "" are falsy)
Truthy(x) == x # None /\ x # <<>>

Max(a, b) == IF a >= b THEN a ELSE b

Min(a, b) == IF a <= b THEN a ELSE b

\* str.endswith
endswith(s, suffix) ==
  /\ Len(s) >= Len(suffix)
  /\ SubSeq(s, Len(s) - Len(suffix) + 1, Len(s)) = suffix

\* the `in` operator on strings (substring test)
contains(s, sub) ==
  \E i \in 1..(Len(s) - Len(sub) + 1) : SubSeq(s, i, i + Len(sub) - 1) = sub

\* str.rfind, 1-based, 0 when absent
rfind(s, c) ==
  LET hits == {i \in 1..Len(s) : s[i] = c}
  IN IF hits = {} THEN 0 ELSE CHOOSE i \in hits : \A j \in hits : j <= i

\* str.replace(old, "") for a non-empty old: leftmost non-overlapping occurrences removed
RECURSIVE replace_remove(_, _)
replace_remove(s, old) ==
  IF Len(s) < Len(old) THEN s
  ELSE IF SubSeq(s, 1, Len(old)) = old
       THEN replace_remove(SubSeq(s, Len(old) + 1, Len(s)), old)
       ELSE <<Head(s)>> \o replace_remove(Tail(s), old)

\* str.strip(chars)
strip(s, chars) ==
  LET keep == {i \in 1..Len(s) : s[i] \notin chars}
  IN IF keep = {} THEN <<>>
     ELSE LET lo == CHOOSE i \in keep : \A j \in keep : i <= j
              hi == CHOOSE i \in keep : \A j \in keep : j <= i
          IN SubSeq(s, lo, hi)

\* str.rstrip() and str.strip() without argument: whitespace
WhiteSpace == {" ", "\t", "\n", "\r"}

rstrip_ws(s) ==
  LET keep == {i \in 1..Len(s) : s[i] \notin WhiteSpace}
  IN IF keep = {} THEN <<>>
     ELSE SubSeq(s, 1, CHOOSE i \in keep : \A j \in keep : j <= i)

\* str.upper on the letters of the model's alphabet
LowerCase == <<"a", "b", "c", "d", "e", "f", "g", "h", "i", "j", "k", "l", "m", "n", "o", "p", "q", "r", "s", "t", "u", "v", "w", "x", "y", "z">>

UpperCase == <<"A", "B", "C", "D", "E", "F", "G", "H", "I", "J", "K", "L", "M", "N", "O", "P", "Q", "R", "S", "T", "U", "V", "W", "X", "Y", "Z">>

upper_char(c) ==
  IF \E i \in 1..Len(LowerCase) : LowerCase[i] = c
  THEN UpperCase[CHOOSE i \in 1..Len(LowerCase) : LowerCase[i] = c]
  ELSE c

upper(s) == [i \in 1..Len(s) |-> upper_char(s[i])]

\* str(n) for the small non-negative integers the model uses as ids
Digits == <<"0", "1", "2", "3", "4", "5", "6", "7", "8", "9">>

RECURSIVE int_to_str(_)
int_to_str(n) ==
  IF n < 10 THEN <<Digits[n + 1]>>
  ELSE int_to_str(n \div 10) \o <<Digits[(n % 10) + 1]>>

\* s[:n] (a negative n counts from the end, as Python slices do)
slice_to(s, n) ==
  IF n >= 0 THEN SubSeq(s, 1, Min(n, Len(s)))
  ELSE SubSeq(s, 1, Max(Len(s) + n, 0))

\* s.rsplit(sep, 1)[0]
rsplit1_head(s, c) ==
  IF rfind(s, c) = 0 THEN s ELSE SubSeq(s, 1, rfind(s, c) - 1)

-----------------------------------------------------------------------------
(* os.path *)

\* os.path.splitext (posix): the extension starts at the last dot of the last
\* component, unless only dots precede it in that component
splitext(p) ==
  LET sepIndex == rfind(p, "/")
      dotIndex == rfind(p, ".")
  IN IF /\ dotIndex > sepIndex
        /\ \E k \in (sepIndex + 1)..(dotIndex - 1) : p[k] # "."
     THEN <<SubSeq(p, 1, dotIndex - 1), SubSeq(p, dotIndex, Len(p))>>
     ELSE <<p, <<>>>>

\* os.path.join(a, b) (posix)
join2(a, b) ==
  IF Len(b) > 0 /\ b[1] = "/" THEN b
  ELSE IF a = <<>> \/ a[Len(a)] = "/" THEN a \o b
  ELSE a \o <<"/">> \o b

RECURSIVE os_path_join(_)
os_path_join(parts) ==
  IF Len(parts) = 1 THEN parts[1]
  ELSE join2(os_path_join(SubSeq(parts, 1, Len(parts) - 1)), parts[Len(parts)])

\* os.path.exists on the modelled filesystem
os_path_exists(fsys, p) == p \in DOMAIN fsys

\* open(p, "wb") / open(p, "w") followed by writes: the file holds exactly `content`
write_file(fsys, p, content) ==
  [q \in (DOMAIN fsys) \cup {p} |-> IF q = p THEN content ELSE fsys[q]]

-----------------------------------------------------------------------------
(* Module constants and globals, lines 13-84 *)

MAX_PATH_LENGTH == 200

VALID_DOWNLOAD_TYPES ==
  {<<"L", "o", "r", "a">>, <<"C", "h", "e", "c", "k", "p", "o", "i", "n", "t", "s">>, <<"E", "m", "b", "e", "d", "d", "i", "n", "g", "s">>, <<"T", "r", "a", "i", "n", "i", "n", "g", "_", "D", "a", "t", "a">>, <<"O", "t", "h", "e", "r">>, <<"A", "l", "l">>}

sanitize_directory_name(name) == rstrip_ws(name)

OUTPUT_DIR == sanitize_directory_name(<<"m", "o", "d", "e", "l", "_", "d", "o", "w", "n", "l", "o", "a", "d", "s">>)

\* the creator being processed (the loop variable of line 578, read as a global)
username == <<"u">>

\* the API token (line 76)
token == <<"t">>

\* lines 61-69: the two filter globals from the parsed arguments
filter_globals(arg_download_type, arg_exclude_type) ==
  IF Truthy(arg_download_type)
  THEN [download_type |-> arg_download_type, exclude_type |-> None]
  ELSE IF Truthy(arg_exclude_type)
       THEN [download_type |-> None, exclude_type |-> arg_exclude_type]
       ELSE [download_type |-> <<"A", "l", "l">>, exclude_type |-> None]

-----------------------------------------------------------------------------
(* sanitize_name, lines 106-134 *)

\* the character class of line 117; "^A" and "^?" stand for the control
\* characters U+0001 and U+007F
IllegalChars == {"<", ">", ":", "\"", "/", "\\", "|", "?", "*", "^A", "^?", "\t", "\n", "\r"}

re_sub_illegal(s) == [i \in 1..Len(s) |-> IF s[i] \in IllegalChars THEN "_" ELSE s[i]]

\* re.sub(r'__+', '_', s)
RECURSIVE re_sub_underscores(_)
re_sub_underscores(s) ==
  IF Len(s) < 2 THEN s
  ELSE IF s[1] = "_" /\ s[2] = "_" THEN re_sub_underscores(Tail(s))
       ELSE <<Head(s)>> \o re_sub_underscores(Tail(s))

reserved_names ==
  {<<"C", "O", "N">>, <<"P", "R", "N">>, <<"A", "U", "X">>, <<"N", "U", "L">>}
    \cup {<<"C", "O", "M">> \o <<Digits[i + 1]>> : i \in 1..9}
    \cup {<<"L", "P", "T">> \o <<Digits[i + 1]>> : i \in 1..9}

sanitize_name(name, folder_name, max_length, subfolder, output_dir, user) ==
  LET base0 == splitext(name)[1]
      extension == splitext(name)[2]
      base1 == IF Truthy(folder_name)
               THEN strip(replace_remove(base0, folder_name), {"_"})
               ELSE base0
      base2 == re_sub_illegal(base1)
      base3 == IF upper(base2) \in reserved_names THEN <<"_">> ELSE base2
      base4 == strip(re_sub_underscores(base3), {"_", "."})
      base5 == IF Truthy(subfolder) /\ Truthy(output_dir) /\ Truthy(user)
               THEN LET path_length == Len(os_path_join(<<output_dir, user, subfolder>>))
                        max_base_length == max_length - Len(extension) - path_length
                    IN rsplit1_head(slice_to(base4, max_base_length), "_")
               ELSE base4
  IN IF Truthy(folder_name) /\ base0 = folder_name
     THEN name
     ELSE strip(base5 \o extension, WhiteSpace)

-----------------------------------------------------------------------------
(* download_file_or_image, lines 136-205.                                   *)
(* A frame holds the arguments and locals of the innermost active call     *)
(* (the retry is a tail call, so one frame is enough) and, as history, what *)
(* the outermost call has met and done so far: whether its destination     *)
(* existed when it was entered (existed, before), the status of each        *)
(* response it received (seen, 0 for a transport error), the requests it    *)
(* issued (nreq), the outcome of each attempt (outs), the paths it opened   *)
(* (wrote).                                                                 *)

\* the minimum size of line 171
min_safetensor_size == 4 * 1024 * 1024

\* chunk size of line 165: what a stream that breaks has written before it breaks
chunk_size == 8192

\* responses session.get may produce: a transport error (exception), or a
\* status with the Content-Type header
TransportError == [exc |-> TRUE, status |-> 0, content_type |-> <<>>]

Response(status, content_type) ==
  [exc |-> FALSE, status |-> status, content_type |-> content_type]

Responses ==
  { TransportError,
    Response(404, <<"t", "e", "x", "t", "/", "h", "t", "m", "l">>),
    Response(503, <<"t", "e", "x", "t", "/", "h", "t", "m", "l">>),
    Response(200, <<"i", "m", "a", "g", "e", "/", "j", "p", "e", "g">>),
    Response(200, <<"v", "i", "d", "e", "o", "/", "m", "p", "4">>),
    Response(200, <<"a", "p", "p", "l", "i", "c", "a", "t", "i", "o", "n", "/", "o", "c", "t", "e", "t", "-", "s", "t", "r", "e", "a", "m">>) }

\* bodies iter_content may deliver: the whole body of some size, or a
\* connection reset after the first chunk
Bodies ==
  { [reset |-> TRUE, size |-> chunk_size],
    [reset |-> FALSE, size |-> min_safetensor_size - 1],
    [reset |-> FALSE, size |-> min_safetensor_size] }

NoFrame ==
  [pc |-> "none", url |-> <<>>, output_path |-> <<>>, retry_count |-> 0,
   max_retries |-> 0, who |-> [task |-> <<>>, kind |-> "none", idx |-> 0],
   dest |-> <<>>, existed |-> FALSE, before |-> [size |-> 0, by |-> [task |-> <<>>, kind |-> "none", idx |-> 0]], nreq |-> 0,
   seen |-> <<>>, outs |-> <<>>, wrote |-> {}, result |-> FALSE]

\* a call download_file_or_image(url, output_path) by `who`; max_retries
\* defaults to max_tries (line 136)
call_download(url, output_path, who, max_tries) ==
  [NoFrame EXCEPT !.pc = "exists", !.url = url, !.output_path = output_path,
                  !.max_retries = max_tries, !.who = who, !.dest = output_path]

\* `return value` of the call, after the event `out`
dfi_return(fr, value, out) ==
  [fr EXCEPT !.pc = "ret", !.result = value, !.outs = Append(@, out)]

\* the recursive call download_file_or_image(url, output_path, retry_count + 1, max_retries)
dfi_recurse(fr, out) ==
  [fr EXCEPT !.pc = "exists", !.retry_count = @ + 1, !.outs = Append(@, out)]

\* lines 172-181 and 184-192: retry while retry_count < max_retries, else log and return False
dfi_retry_or_fail(fr, out) ==
  IF fr.retry_count < fr.max_retries
  THEN [fr |-> dfi_recurse(fr, out), err |-> <<>>]
  ELSE [fr |-> dfi_return(fr, FALSE, out),
        err |-> <<[url |-> fr.url, why |-> out, by |-> fr.who]>>]

\* download_file_or_image without the test of lines 138-141
dfi_exists_unchecked(fr, fsys) == [fr EXCEPT !.pc = "get"]

\* lines 138-141: skip when the destination exists
dfi_exists(fr, fsys) ==
  IF os_path_exists(fsys, fr.output_path)
  THEN dfi_return(fr, FALSE, "skip")
  ELSE [fr EXCEPT !.pc = "get"]

\* lines 150-160: the extension from the Content-Type header
corrected_path(output_path, content_type) ==
  LET file_extension ==
        IF contains(content_type, <<"i", "m", "a", "g", "e">>) THEN <<".", "j", "p", "g">>
        ELSE IF contains(content_type, <<"v", "i", "d", "e", "o">>) THEN <<".", "m", "p", "4">>
        ELSE splitext(output_path)[2]
  IN splitext(output_path)[1] \o file_extension

\* download_file_or_image without the test of lines 145-147: a 404 is
\* raised by raise_for_status like any other error status
dfi_get_raises_404(fr, resp) ==
  LET fr1 == [fr EXCEPT !.nreq = @ + 1]
  IN IF resp.exc \/ resp.status >= 400 THEN dfi_retry_or_fail(fr1, "fail")
     ELSE [fr |-> [fr1 EXCEPT !.pc = "open",
                              !.output_path = corrected_path(@, resp.content_type)],
           err |-> <<>>]

\* lines 144-160 with the handler of line 183
dfi_get(fr, resp) ==
  LET fr1 == [fr EXCEPT !.nreq = @ + 1]
  IN IF resp.exc THEN dfi_retry_or_fail(fr1, "fail")
     ELSE IF resp.status = 404 THEN [fr |-> dfi_return(fr1, FALSE, "404"), err |-> <<>>]
     ELSE IF resp.status >= 400 THEN dfi_retry_or_fail(fr1, "fail")
     ELSE [fr |-> [fr1 EXCEPT !.pc = "open",
                              !.output_path = corrected_path(@, resp.content_type)],
           err |-> <<>>]

\* line 164: open(output_path, "wb") creates or truncates the file
dfi_open(fr) == [fr EXCEPT !.pc = "stream", !.wrote = @ \cup {fr.output_path}]

\* lines 165-169 with the handler of line 183
dfi_stream(fr, body) ==
  IF body.reset THEN dfi_retry_or_fail(fr, "reset")
  ELSE [fr |-> [fr EXCEPT !.pc = "getsize"], err |-> <<>>]

\* lines 171-182
dfi_getsize(fr, fsys) ==
  IF /\ endswith(fr.output_path, <<".", "s", "a", "f", "e", "t", "e", "n", "s", "o", "r">>)
     /\ fsys[fr.output_path].size < min_safetensor_size
  THEN dfi_retry_or_fail(fr, "short")
  ELSE [fr |-> dfi_return(fr, TRUE, "ok"), err |-> <<>>]

-----------------------------------------------------------------------------
(* Catalog data: CatalogItem, ModelVersion, FileEntry, ImageEntry as the   *)
(* JSON the API returns.  A missing "type" key is hasType = FALSE; a       *)
(* missing "baseModel" is None; a missing or zero image id is 0.           *)

FileEntry(name, downloadUrl) ==
  [name |-> name, downloadUrl |-> downloadUrl, type |-> <<"M", "o", "d", "e", "l">>]

ImageEntry(id, url) == [id |-> id, url |-> url]

ModelVersion(baseModel, files, images) ==
  [baseModel |-> baseModel, files |-> files, images |-> images]

CatalogItem(id, name, hasType, type, modelVersions) ==
  [id |-> id, name |-> name, hasType |-> hasType, type |-> type,
   modelVersions |-> modelVersions]

-----------------------------------------------------------------------------
(* download_model_files, lines 208-349 *)

\* lines 229-255: the subfolder of a file from its name and the item's type
subfolder_of(file_name, item) ==
  IF endswith(file_name, <<".", "z", "i", "p">>)
  THEN IF item.hasType /\ item.type = <<"L", "O", "R", "A">> THEN <<"L", "o", "r", "a">>
       ELSE IF item.hasType /\ item.type = <<"T", "r", "a", "i", "n", "i", "n", "g", "_", "D", "a", "t", "a">> THEN <<"T", "r", "a", "i", "n", "i", "n", "g", "_", "D", "a", "t", "a">>
       ELSE <<"O", "t", "h", "e", "r">>
  ELSE IF endswith(file_name, <<".", "s", "a", "f", "e", "t", "e", "n", "s", "o", "r", "s">>)
  THEN IF item.hasType
       THEN IF item.type = <<"C", "h", "e", "c", "k", "p", "o", "i", "n", "t">> THEN <<"C", "h", "e", "c", "k", "p", "o", "i", "n", "t", "s">>
            ELSE IF item.type = <<"T", "e", "x", "t", "u", "a", "l", "I", "n", "v", "e", "r", "s", "i", "o", "n">> THEN <<"E", "m", "b", "e", "d", "d", "i", "n", "g", "s">>
            ELSE IF item.type \in {<<"V", "A", "E">>, <<"L", "o", "C", "o", "n">>} THEN <<"O", "t", "h", "e", "r">>
            ELSE <<"L", "o", "r", "a">>
       ELSE <<"L", "o", "r", "a">>
  ELSE IF endswith(file_name, <<".", "p", "t">>)
  THEN IF item.hasType /\ item.type = <<"T", "e", "x", "t", "u", "a", "l", "I", "n", "v", "e", "r", "s", "i", "o", "n">> THEN <<"E", "m", "b", "e", "d", "d", "i", "n", "g", "s">>
       ELSE <<"O", "t", "h", "e", "r">>
  ELSE <<"O", "t", "h", "e", "r">>

\* a filter that lets every file through
filter_skips_nothing(subfolder, download_type, exclude_type) == FALSE

\* lines 257-263: TRUE when the file is skipped by `continue`
filter_skips_wrong_type(subfolder, download_type, exclude_type) ==
  IF download_type # None
  THEN download_type # <<"A", "l", "l">> /\ subfolder # download_type
  ELSE IF exclude_type # None
       THEN subfolder = exclude_type
       ELSE FALSE

passes_filter(subfolder, download_type, exclude_type) ==
  ~filter_skips_wrong_type(subfolder, download_type, exclude_type)

\* lines 216-217
item_name_sanitized_of(item, item_name) ==
  sanitize_name(int_to_str(item.id) \o <<" ", "-", " ">> \o item_name,
                None, MAX_PATH_LENGTH, None, None, None)

\* lines 266-271
item_dir_of(subfolder, base_model, item_name_sanitized) ==
  IF Truthy(base_model)
  THEN os_path_join(<<OUTPUT_DIR, username, subfolder, base_model, item_name_sanitized>>)
  ELSE os_path_join(<<OUTPUT_DIR, username, subfolder, item_name_sanitized>>)

\* lines 295-299
url_with_token(file_url) ==
  IF contains(file_url, <<"?">>)
  THEN file_url \o <<"&", "t", "o", "k", "e", "n", "=">> \o token \o <<"&", "n", "s", "f", "w", "=", "t", "r", "u", "e">>
  ELSE file_url \o <<"?", "t", "o", "k", "e", "n", "=">> \o token \o <<"&", "n", "s", "f", "w", "=", "t", "r", "u", "e">>

\* lines 301-302
file_path_of(item_dir, file_name, item_name, subfolder) ==
  os_path_join(<<item_dir,
                 sanitize_name(file_name, item_name, MAX_PATH_LENGTH, subfolder, None, None)>>)

\* lines 328-330
image_path_of(item_dir, image_id, file_name, item_name, subfolder) ==
  LET image_filename_raw ==
        item_name \o <<"_">> \o (IF image_id = 0 THEN <<>> ELSE int_to_str(image_id))
          \o <<"_", "f", "o", "r", "_">> \o file_name \o <<".", "j", "p", "e", "g">>
  IN os_path_join(<<item_dir,
                    sanitize_name(image_filename_raw, item_name, MAX_PATH_LENGTH,
                                  subfolder, None, None)>>)

\* line 304 (file_url already carries the token of lines 295-299) and line 331
invalid_entry(name, url) == ~Truthy(name) \/ ~Truthy(url)

invalid_image(image) == image.id = 0 \/ ~Truthy(image.url)

\* the three lines of a FailureRecord, lines 312-315 and 339-342
failure_record(item_name, label, url, who) ==
  << [t |-> "Item Name", v |-> item_name, by |-> who],
     [t |-> label, v |-> url, by |-> who],
     [t |-> "---", v |-> <<>>, by |-> who] >>

\* what the task does with the result of a download, lines 309-315 and 336-342:
\* TRUE when a FailureRecord is appended
appends_failure(success) == ~success

\* description.txt, triggerWords.txt and details.txt of lines 284-293, 317-321
MetaWho == [task |-> <<>>, kind |-> "meta", idx |-> 0]

MetaContent == [size |-> 0, by |-> MetaWho]

write_meta(fsys, item_dir, names) ==
  LET paths == {os_path_join(<<item_dir, names[i]>>) : i \in 1..Len(names)}
  IN [q \in (DOMAIN fsys) \cup paths |-> IF q \in paths THEN MetaContent ELSE fsys[q]]

\* locals of a worker thread with no task; tried and results are history: the
\* entries download_file_or_image was called for, and what each call returned
IdleWorker ==
  [st |-> "idle", task |-> [id |-> <<>>], fi |-> 0, ii |-> 0, item_dir |-> None,
   subfolder |-> None, file_name |-> None, downloaded |-> FALSE,
   fr |-> NoFrame, log |-> <<>>, tried |-> <<>>, results |-> <<>>]

\* lines 210-223: entry of download_model_files(item_name, version, item, ...)
start_task(task) ==
  [IdleWorker EXCEPT !.st = "files", !.task = task, !.fi = 1]

Workers == 1..MaxThreads

\* a pool that starts a thread for every task, whatever its width
worker_take_unbounded(w) ==
  /\ wk[w].st = "idle"
  /\ \A v \in 1..(w - 1) : wk[v].st # "idle"
  /\ pool.queue # <<>>
  /\ wk' = [wk EXCEPT ![w] = start_task(Head(pool.queue))]
  /\ pool' = [pool EXCEPT !.queue = Tail(@)]
  /\ UNCHANGED <<cfg, remote, fs, reqs, errlog, failed, orch>>

\* a pool thread takes the next queued task (at most max_threads threads
\* exist); the threads being interchangeable, the idle one of lowest index does
worker_take(w) ==
  /\ w <= cfg.max_threads
  /\ wk[w].st = "idle"
  /\ \A v \in 1..(w - 1) : wk[v].st # "idle"
  /\ pool.queue # <<>>
  /\ wk' = [wk EXCEPT ![w] = start_task(Head(pool.queue))]
  /\ pool' = [pool EXCEPT !.queue = Tail(@)]
  /\ UNCHANGED <<cfg, remote, fs, reqs, errlog, failed, orch>>

\* one iteration of the loop over files, lines 225-308, up to the call of
\* download_file_or_image
dmf_file(w) ==
  LET L == wk[w]
      T == L.task
  IN /\ L.st = "files"
     /\ L.fi <= Len(T.version.files)
     /\ LET file == T.version.files[L.fi]
            subfolder == subfolder_of(file.name, T.item)
            L1 == [L EXCEPT !.file_name = file.name, !.subfolder = subfolder]
        IN IF ~passes_filter(subfolder, cfg.download_type, cfg.exclude_type)
           THEN /\ wk' = [wk EXCEPT ![w] = [L1 EXCEPT !.fi = @ + 1]]
                /\ fs' = fs
           ELSE LET item_dir == item_dir_of(subfolder, T.item.baseModel,
                                            item_name_sanitized_of(T.item, T.item_name))
                    file_url == url_with_token(file.downloadUrl)
                    file_path == file_path_of(item_dir, file.name, T.item_name, subfolder)
                    L2 == [L1 EXCEPT !.item_dir = item_dir]
                    who == [task |-> T.id, kind |-> "file", idx |-> L.fi]
                IN /\ fs' = write_meta(fs, item_dir, <<<<"d", "e", "s", "c", "r", "i", "p", "t", "i", "o", "n", ".", "t", "x", "t">>, <<"t", "r", "i", "g", "g", "e", "r", "W", "o", "r", "d", "s", ".", "t", "x", "t">>>>)
                   /\ IF invalid_entry(file.name, file_url)
                      THEN wk' = [wk EXCEPT ![w] = [L2 EXCEPT !.fi = @ + 1]]
                      ELSE wk' = [wk EXCEPT ![w] =
                                   [L2 EXCEPT !.st = "call",
                                              !.tried = Append(@, <<"file", L.fi>>),
                                              !.fr = call_download(file_url, file_path, who,
                                                                   cfg.max_tries)]]
     /\ UNCHANGED <<cfg, remote, reqs, errlog, failed, orch, pool>>

\* the loop over images were it entered without the test of line 323
dmf_begin_images_ungated(w) ==
  LET L == wk[w]
  IN /\ L.st = "files"
     /\ L.fi > Len(L.task.version.files)
     /\ wk' = [wk EXCEPT ![w] = [L EXCEPT !.st = "images", !.ii = 1]]
     /\ UNCHANGED <<cfg, remote, fs, reqs, errlog, failed, orch, pool>>

\* line 323: after the files, the images are handled only when item_dir is set
dmf_begin_images(w) ==
  LET L == wk[w]
  IN /\ L.st = "files"
     /\ L.fi > Len(L.task.version.files)
     /\ L.item_dir # None
     /\ wk' = [wk EXCEPT ![w] = [L EXCEPT !.st = "images", !.ii = 1]]
     /\ UNCHANGED <<cfg, remote, fs, reqs, errlog, failed, orch, pool>>

\* one iteration of the loop over images, lines 324-335, up to the call
dmf_image(w) ==
  LET L == wk[w]
      T == L.task
  IN /\ L.st = "images"
     /\ L.ii <= Len(T.version.images)
     /\ LET image == T.version.images[L.ii]
            image_path == image_path_of(L.item_dir, image.id, L.file_name,
                                        T.item_name, L.subfolder)
            who == [task |-> T.id, kind |-> "image", idx |-> L.ii]
        IN IF invalid_image(image)
           THEN wk' = [wk EXCEPT ![w] = [L EXCEPT !.ii = @ + 1]]
           ELSE wk' = [wk EXCEPT ![w] =
                        [L EXCEPT !.st = "call",
                                  !.tried = Append(@, <<"image", L.ii>>),
                                  !.fr = call_download(image.url, image_path, who,
                                                       cfg.max_tries)]]
     /\ UNCHANGED <<cfg, remote, fs, reqs, errlog, failed, orch, pool>>

\* dmf_after were the task to give up at the first failed download: the
\* remaining files and images of the version are dropped
dmf_after_gives_up(w) ==
  LET L == wk[w]
      fr == L.fr
      label == IF fr.who.kind = "file" THEN "File URL" ELSE "Image URL"
  IN /\ L.st = "call"
     /\ fr.pc = "ret"
     /\ failed' = IF appends_failure(fr.result)
                  THEN failed \o failure_record(L.task.item_name, label, fr.url, fr.who)
                  ELSE failed
     /\ fs' = write_meta(fs, L.item_dir, <<<<"d", "e", "t", "a", "i", "l", "s", ".", "t", "x", "t">>>>)
     /\ wk' = [wk EXCEPT ![w] =
                [L EXCEPT !.st = IF fr.who.kind = "file" /\ fr.result THEN "files" ELSE "images",
                          !.fi = IF fr.who.kind = "file" THEN @ + 1 ELSE @,
                          !.ii = IF fr.result
                                 THEN (IF fr.who.kind = "image" THEN @ + 1 ELSE @)
                                 ELSE Len(L.task.version.images) + 1,
                          !.downloaded = @ \/ fr.result,
                          !.results = Append(@, <<fr.who.kind, fr.who.idx, fr.result>>),
                          !.fr = NoFrame]]
     /\ UNCHANGED <<cfg, remote, reqs, errlog, orch, pool>>

\* lines 317-321 and 344-347, and the step of the loop: the locals of the task
\* once the result of the download has been recorded
after_download(L) ==
  [L EXCEPT !.st = IF L.fr.who.kind = "file" THEN "files" ELSE "images",
            !.fi = IF L.fr.who.kind = "file" THEN @ + 1 ELSE @,
            !.ii = IF L.fr.who.kind = "image" THEN @ + 1 ELSE @,
            !.downloaded = @ \/ L.fr.result,
            !.results = Append(@, <<L.fr.who.kind, L.fr.who.idx, L.fr.result>>),
            !.log = <<>>,
            !.fr = NoFrame]

\* lines 309-321 and 336-347: the result of the download is recorded and the
\* loop goes on with the next entry.  No lock is held around the three
\* f.write of a FailureRecord: where the platform appends what a file object
\* buffered in one piece the record is appended here, elsewhere its first line
\* is and dmf_log appends the others
dmf_after(w) ==
  LET L == wk[w]
      fr == L.fr
      label == IF fr.who.kind = "file" THEN "File URL" ELSE "Image URL"
      record == failure_record(L.task.item_name, label, fr.url, fr.who)
  IN /\ L.st = "call"
     /\ fr.pc = "ret"
     /\ IF appends_failure(fr.result) /\ remote.append = "line"
        THEN /\ failed' = Append(failed, Head(record))
             /\ fs' = fs
             /\ wk' = [wk EXCEPT ![w] = [L EXCEPT !.st = "log", !.log = Tail(record)]]
        ELSE /\ failed' = IF appends_failure(fr.result) THEN failed \o record ELSE failed
             /\ fs' = write_meta(fs, L.item_dir, <<<<"d", "e", "t", "a", "i", "l", "s", ".", "t", "x", "t">>>>)
             /\ wk' = [wk EXCEPT ![w] = after_download(L)]
     /\ UNCHANGED <<cfg, remote, reqs, errlog, orch, pool>>

\* lines 313-315 and 340-342: the next f.write of a FailureRecord reaches the file
dmf_log(w) ==
  LET L == wk[w]
  IN /\ L.st = "log"
     /\ failed' = Append(failed, Head(L.log))
     /\ IF Len(L.log) = 1
        THEN /\ fs' = write_meta(fs, L.item_dir, <<<<"d", "e", "t", "a", "i", "l", "s", ".", "t", "x", "t">>>>)
             /\ wk' = [wk EXCEPT ![w] = after_download(L)]
        ELSE /\ fs' = fs
             /\ wk' = [wk EXCEPT ![w] = [L EXCEPT !.log = Tail(@)]]
     /\ UNCHANGED <<cfg, remote, reqs, errlog, orch, pool>>

\* line 349: the task returns and its future completes
dmf_return(w) ==
  LET L == wk[w]
  IN /\ \/ L.st = "files" /\ L.fi > Len(L.task.version.files) /\ L.item_dir = None
        \/ L.st = "images" /\ L.ii > Len(L.task.version.images)
     /\ pool' = [pool EXCEPT !.done = @ \cup {[id |-> L.task.id,
                                                 downloaded |-> L.downloaded,
                                                 tried |-> L.tried,
                                                 results |-> L.results]}]
     /\ wk' = [wk EXCEPT ![w] = IdleWorker]
     /\ UNCHANGED <<cfg, remote, fs, reqs, errlog, failed, orch>>

-----------------------------------------------------------------------------
(* The steps of download_file_or_image as taken by a worker thread *)

\* lines 138-141; the state of the destination at the entry of the outermost
\* call is kept as history
dfi_step_exists(w) ==
  /\ wk[w].st = "call"
  /\ wk[w].fr.pc = "exists"
  /\ LET fr == wk[w].fr
         fr1 == dfi_exists(fr, fs)
     IN wk' = [wk EXCEPT ![w].fr =
                 IF fr.retry_count = 0 /\ os_path_exists(fs, fr.output_path)
                 THEN [fr1 EXCEPT !.existed = TRUE, !.before = fs[fr.output_path]]
                 ELSE fr1]
  /\ UNCHANGED <<cfg, remote, fs, reqs, errlog, failed, orch, pool>>

\* line 144: session.get raises MissingSchema, a RequestException, for a URL
\* without a scheme; any other URL gets one of the responses of the remote
responses_to(url) ==
  IF Len(url) >= 4 /\ SubSeq(url, 1, 4) = <<"h", "t", "t", "p">> THEN remote.responses
  ELSE {TransportError}

\* lines 144-160: the request and its response
dfi_step_get(w) ==
  /\ wk[w].st = "call"
  /\ wk[w].fr.pc = "get"
  /\ \E resp \in responses_to(wk[w].fr.url) :
       LET r == dfi_get(wk[w].fr, resp)
       IN /\ wk' = [wk EXCEPT ![w].fr = [r.fr EXCEPT !.seen = Append(@, resp.status)]]
          /\ errlog' = errlog \o r.err
  /\ reqs' = reqs \cup {[url |-> wk[w].fr.url, dest |-> wk[w].fr.dest, by |-> wk[w].fr.who]}
  /\ UNCHANGED <<cfg, remote, fs, failed, orch, pool>>

\* line 164
dfi_step_open(w) ==
  /\ wk[w].st = "call"
  /\ wk[w].fr.pc = "open"
  /\ fs' = write_file(fs, wk[w].fr.output_path, [size |-> 0, by |-> wk[w].fr.who])
  /\ wk' = [wk EXCEPT ![w].fr = dfi_open(@)]
  /\ UNCHANGED <<cfg, remote, reqs, errlog, failed, orch, pool>>

\* lines 165-169: the body is streamed into the file
dfi_step_stream(w) ==
  /\ wk[w].st = "call"
  /\ wk[w].fr.pc = "stream"
  /\ \E body \in remote.bodies :
       LET r == dfi_stream(wk[w].fr, body)
       IN /\ fs' = write_file(fs, wk[w].fr.output_path,
                              [size |-> body.size, by |-> wk[w].fr.who])
          /\ wk' = [wk EXCEPT ![w].fr = r.fr]
          /\ errlog' = errlog \o r.err
  /\ UNCHANGED <<cfg, remote, reqs, failed, orch, pool>>

\* lines 171-182
dfi_step_getsize(w) ==
  /\ wk[w].st = "call"
  /\ wk[w].fr.pc = "getsize"
  /\ LET r == dfi_getsize(wk[w].fr, fs)
     IN /\ wk' = [wk EXCEPT ![w].fr = r.fr]
        /\ errlog' = errlog \o r.err
  /\ UNCHANGED <<cfg, remote, fs, reqs, failed, orch, pool>>

\* everything a worker thread can do
WorkerStep(w) ==
  \/ worker_take(w)
  \/ dmf_file(w)
  \/ dmf_begin_images(w)
  \/ dmf_image(w)
  \/ dmf_after(w)
  \/ dmf_return(w)
  \/ dfi_step_exists(w)
  \/ dfi_step_get(w)
  \/ dfi_step_open(w)
  \/ dfi_step_stream(w)
  \/ dfi_step_getsize(w)

-----------------------------------------------------------------------------
(* The task submitted for one (item, version), lines 439-452 *)

\* item.copy() with baseModel set from the version; only the keys
\* download_model_files reads are kept
item_with_base_model(item, version) ==
  [id |-> item.id, name |-> item.name, hasType |-> item.hasType, type |-> item.type,
   baseModel |-> version.baseModel]

submit_args(id, item, vi) ==
  [id |-> id, item_name |-> item.name, version |-> item.modelVersions[vi],
   item |-> item_with_base_model(item, item.modelVersions[vi])]

\* a function called on its own: its arguments and the value it returned
NoCall == [args |-> <<>>, ret |-> None]

\* locals of the main thread before process_username is entered; argv holds
\* the values given for --download_type and --exclude_type (None: not given)
IdleOrch ==
  [pc |-> "single", run |-> 1, argv |-> <<None, None>>, call |-> NoCall, next_page |-> None, first_next_page |-> None,
   retry_count |-> 0, attempts |-> 0, items |-> <<>>, todo |-> <<>>, page |-> 0,
   trail |-> <<>>, summary |-> <<>>]

\* append says how the platform appends a FailureRecord to the failure log:
\* "record" when the three writes reach the file as one append, "line" when
\* each reaches it on its own
NoRemote == [S |-> <<>>, D |-> <<>>, responses |-> {}, bodies |-> {}, append |-> "record"]

-----------------------------------------------------------------------------
(* Specification SpecTask: one run of download_model_files on one            *)
(* (item, version), every response of the remote possible, followed by a     *)
(* second run of the program on the same catalog entry when the first run    *)
(* downloaded everything.                                                    *)

File_a_zip == FileEntry(<<"a", ".", "z", "i", "p">>, <<"h", "t", "t", "p", "s", ":", "/", "/", "h", "/", "f", "a">>)

File_b_safetensors == FileEntry(<<"b", ".", "s", "a", "f", "e", "t", "e", "n", "s", "o", "r", "s">>, <<"h", "t", "t", "p", "s", ":", "/", "/", "h", "/", "f", "b">>)

File_c_pt == FileEntry(<<"c", ".", "p", "t">>, <<"h", "t", "t", "p", "s", ":", "/", "/", "h", "/", "f", "c">>)

File_d_safetensor == FileEntry(<<"d", ".", "s", "a", "f", "e", "t", "e", "n", "s", "o", "r">>, <<"h", "t", "t", "p", "s", ":", "/", "/", "h", "/", "f", "d", "?", "x", "=", "1">>)

File_e_bin == FileEntry(<<"e", ".", "b", "i", "n">>, <<"h", "t", "t", "p", "s", ":", "/", "/", "h", "/", "f", "e">>)

Image_7 == ImageEntry(7, <<"h", "t", "t", "p", "s", ":", "/", "/", "h", "/", "i", "7">>)

EngineItems ==
  { CatalogItem(42, <<"A">>, TRUE, <<"L", "O", "R", "A">>, <<version>>) :
      version \in { ModelVersion(<<"S", "D", "1">>, <<File_a_zip>>, <<>>),
                    ModelVersion(<<"S", "D", "1">>, <<File_b_safetensors>>, <<>>),
                    ModelVersion(None, <<File_d_safetensor>>, <<>>),
                    ModelVersion(<<"S", "D", "1">>, <<File_a_zip, File_a_zip>>, <<>>),
                    ModelVersion(None, <<File_a_zip>>, <<Image_7>>) } }

\* the destination download_model_files plans for file fi of the task
planned_file_path(task, fi) ==
  LET file_name == task.version.files[fi].name
      subfolder == subfolder_of(file_name, task.item)
  IN file_path_of(item_dir_of(subfolder, task.item.baseModel,
                              item_name_sanitized_of(task.item, task.item_name)),
                  file_name, task.item_name, subfolder)

\* a file left by an earlier run of the program
OldWho == [task |-> <<>>, kind |-> "old", idx |-> 0]

OldContent == [size |-> min_safetensor_size, by |-> OldWho]

EmptyFs == [p \in {} |-> OldContent]

\* the command lines argparse accepts for the two filter options (lines 40-53):
\* at most one of --download_type and --exclude_type, each among the valid types
FilterArgs ==
  {<<None, None>>}
    \cup {<<t, None>> : t \in VALID_DOWNLOAD_TYPES}
    \cup {<<None, t>> : t \in VALID_DOWNLOAD_TYPES}

InitTask(items, argsets, tries, present, responses, bodies) ==
  \E item \in items, args \in argsets, max_tries \in tries, pre \in present :
    LET task == submit_args(<<1, 1, 1, 1>>, item, 1)
        flt == filter_globals(args[1], args[2])
    IN /\ cfg = [max_tries |-> max_tries, max_threads |-> 1,
                 download_type |-> flt.download_type, exclude_type |-> flt.exclude_type]
       /\ remote = [NoRemote EXCEPT !.responses = responses, !.bodies = bodies]
       /\ fs = IF pre THEN write_file(EmptyFs, planned_file_path(task, 1), OldContent)
               ELSE EmptyFs
       /\ reqs = {}
       /\ errlog = <<>>
       /\ failed = <<>>
       /\ wk = [w \in Workers |-> IdleWorker]
       /\ orch = IdleOrch
       /\ pool = [queue |-> <<task>>, done |-> {}, input |-> task]

InitEngine ==
  InitTask(EngineItems, {<<None, None>>}, 1..MaxTries, BOOLEAN, Responses, Bodies)

\* the program is run again on the same catalog after a run that downloaded
\* everything it attempted: line 375 rewrites the failure log, the task is submitted again
second_run ==
  /\ orch.pc = "single"
  /\ orch.run = 1
  /\ pool.queue = <<>>
  /\ \A w \in Workers : wk[w].st = "idle"
  /\ Cardinality(pool.done) = 1
  /\ \A d \in pool.done : d.tried # <<>>
  /\ failed = <<>>
  /\ orch' = [orch EXCEPT !.run = 2]
  /\ failed' = <<>>
  /\ pool' = [pool EXCEPT !.queue = <<[pool.input EXCEPT !.id = <<2, 1, 1, 1>>]>>,
                           !.done = {}]
  /\ UNCHANGED <<cfg, remote, fs, reqs, errlog, wk>>

NextTask ==
  \/ \E w \in Workers : WorkerStep(w)
  \/ second_run

SpecTask == InitEngine /\ [][NextTask]_vars

\* Specification SpecFilter: the same task under every filter the command line
\* accepts, for items of every type and files of every kind of name
ItemTypes ==
  { <<TRUE, <<"L", "O", "R", "A">>>>, <<TRUE, <<"C", "h", "e", "c", "k", "p", "o", "i", "n", "t">>>>, <<TRUE, <<"T", "e", "x", "t", "u", "a", "l", "I", "n", "v", "e", "r", "s", "i", "o", "n">>>>,
    <<TRUE, <<"T", "r", "a", "i", "n", "i", "n", "g", "_", "D", "a", "t", "a">>>>, <<TRUE, <<"V", "A", "E">>>>, <<FALSE, <<>>>> }

FilterVersions ==
  { ModelVersion(<<"S", "D", "1">>, <<File_a_zip>>, <<>>),
    ModelVersion(<<"S", "D", "1">>, <<File_b_safetensors>>, <<>>),
    ModelVersion(<<"S", "D", "1">>, <<File_c_pt>>, <<>>),
    ModelVersion(<<"S", "D", "1">>, <<File_e_bin>>, <<>>),
    ModelVersion(<<"S", "D", "1">>, <<File_a_zip, File_b_safetensors>>, <<>>),
    ModelVersion(<<"S", "D", "1">>, <<File_c_pt, File_a_zip>>, <<Image_7>>) }

FilterItems ==
  { CatalogItem(42, <<"A">>, ty[1], ty[2], <<version>>) :
      ty \in ItemTypes, version \in FilterVersions }

InitFilter ==
  InitTask(FilterItems, FilterArgs, {1}, {FALSE},
           {TransportError, Response(404, <<"t", "e", "x", "t", "/", "h", "t", "m", "l">>),
            Response(200, <<"a", "p", "p", "l", "i", "c", "a", "t", "i", "o", "n", "/", "o", "c", "t", "e", "t", "-", "s", "t", "r", "e", "a", "m">>)},
           {[reset |-> FALSE, size |-> min_safetensor_size]})

SpecFilter == InitFilter /\ [][NextTask]_vars

-----------------------------------------------------------------------------
(* The remote catalog.  A catalog maps a request URL to the page served for  *)
(* it: [items, metadata]; metadata.truthy is FALSE for a missing or empty     *)
(* metadata object, metadata.nextPage is None when the key is missing.        *)

BASE_URL == <<"h", "t", "t", "p", "s", ":", "/", "/", "c", "i", "v", "i", "t", "a", "i", ".", "c", "o", "m", "/", "a", "p", "i", "/", "v", "1", "/", "m", "o", "d", "e", "l", "s">>

\* line 521
summary_first_url == BASE_URL \o <<"?", "u", "s", "e", "r", "n", "a", "m", "e", "=">> \o username \o <<"&", "t", "o", "k", "e", "n", "=">> \o token \o <<"&", "n", "s", "f", "w", "=", "t", "r", "u", "e">>

\* lines 378-382: urlencode of the two parameters
download_first_url == BASE_URL \o <<"?">> \o <<"u", "s", "e", "r", "n", "a", "m", "e", "=">> \o username \o <<"&", "t", "o", "k", "e", "n", "=">> \o token \o <<"&", "n", "s", "f", "w", "=", "t", "r", "u", "e">>

Cursor1 == BASE_URL \o <<"?", "c", "u", "r", "s", "o", "r", "=", "1">>

Page(items, truthy, nextPage) ==
  [items |-> items, metadata |-> [truthy |-> truthy, nextPage |-> nextPage]]

Image_8 == ImageEntry(8, <<"h", "t", "t", "p", "s", ":", "/", "/", "h", "/", "i", "8">>)

\* two versions whose files share a name and a baseModel, and so a destination
Item_A ==
  CatalogItem(1, <<"A">>, TRUE, <<"L", "O", "R", "A">>,
              << ModelVersion(<<"S", "D", "1">>, <<File_a_zip>>, <<Image_7>>),
                 ModelVersion(<<"S", "D", "1">>, <<File_a_zip>>, <<>>) >>)

\* another item carrying the display name of Item_A
Item_A_again ==
  CatalogItem(3, <<"A">>, TRUE, <<"L", "O", "R", "A">>, << ModelVersion(<<"S", "D", "1">>, <<File_c_pt>>, <<>>) >>)

Item_B ==
  CatalogItem(2, <<"B">>, TRUE, <<"C", "h", "e", "c", "k", "p", "o", "i", "n", "t">>,
              << ModelVersion(None, <<File_b_safetensors>>, <<Image_8>>) >>)

Page_A(nextPage) == Page(<<Item_A, Item_A_again>>, TRUE, nextPage)

Page_B(nextPage) == Page(<<Item_B>>, TRUE, nextPage)

\* a catalog of two pages, the second without nextPage
Catalog_Two ==
  (summary_first_url :> Page_A(Cursor1)) @@ (Cursor1 :> Page_B(None))

\* a catalog whose every page returns the same nextPage
Catalog_Loop ==
  (summary_first_url :> Page_B(Cursor1)) @@ (Cursor1 :> Page_B(Cursor1))

\* a catalog that ends in an empty page without metadata
Catalog_End ==
  (summary_first_url :> Page_B(Cursor1)) @@ (Cursor1 :> Page(<<>>, FALSE, None))

\* what the remote serves to the summary walk and to the download walk of one
\* run: the same catalog, or (the site is live) a catalog that has stopped
\* advancing by the time of the download walk
CatalogPairs ==
  { <<Catalog_Two, Catalog_Two>>, <<Catalog_Loop, Catalog_Loop>>,
    <<Catalog_End, Catalog_End>>, <<Catalog_Two, Catalog_Loop>> }

-----------------------------------------------------------------------------
(* fetch_all_models, lines 484-574 *)

\* lines 484-498
categorize_item(item) ==
  LET item_type == IF item.hasType THEN upper(item.type) ELSE <<>>
  IN IF item_type = <<"C", "H", "E", "C", "K", "P", "O", "I", "N", "T">> THEN <<"C", "h", "e", "c", "k", "p", "o", "i", "n", "t", "s">>
     ELSE IF item_type = <<"T", "E", "X", "T", "U", "A", "L", "I", "N", "V", "E", "R", "S", "I", "O", "N">> THEN <<"E", "m", "b", "e", "d", "d", "i", "n", "g", "s">>
     ELSE IF item_type = <<"L", "O", "R", "A">> THEN <<"L", "o", "r", "a">>
     ELSE IF item_type = <<"T", "R", "A", "I", "N", "I", "N", "G", "_", "D", "A", "T", "A">> THEN <<"T", "r", "a", "i", "n", "i", "n", "g", "_", "D", "a", "t", "a">>
     ELSE <<"O", "t", "h", "e", "r">>

\* lines 500-508: the names of the files of type "Training Data" of an item
RECURSIVE training_names(_)
training_names(files) ==
  IF files = <<>> THEN <<>>
  ELSE (IF Head(files).type = <<"T", "r", "a", "i", "n", "i", "n", "g", " ", "D", "a", "t", "a">> THEN <<Head(files).name>> ELSE <<>>)
         \o training_names(Tail(files))

RECURSIVE search_for_training_data_files(_)
search_for_training_data_files(model_versions) ==
  IF model_versions = <<>> THEN <<>>
  ELSE training_names(Head(model_versions).files)
         \o search_for_training_data_files(Tail(model_versions))

\* lines 527-540: the (category, name) entries the items of a page add to
\* categorized_items
RECURSIVE categorized_of(_)
categorized_of(items) ==
  IF items = <<>> THEN <<>>
  ELSE LET item == Head(items)
           training == search_for_training_data_files(item.modelVersions)
       IN <<<<categorize_item(item), item.name>>>>
            \o [i \in 1..Len(training) |-> <<<<"T", "r", "a", "i", "n", "i", "n", "g", "_", "D", "a", "t", "a">>, training[i]>>]
            \o categorized_of(Tail(items))

\* lines 545-548, as written: the condition under which the loop breaks
summary_breaks(next_page, first_next_page, metadata) ==
  \/ /\ Truthy(next_page)
     /\ next_page = first_next_page
     /\ next_page # next_page
  \/ ~metadata.truthy

\* a successful page request, as history: which walk, the URL requested, the
\* nextPage of the response, and how many tasks were queued or running
Fetched(walk, url, next) ==
  [walk |-> walk, url |-> url, next |-> next,
   busy |-> Len(pool.queue) + Cardinality({w \in Workers : wk[w].st # "idle"})]

\* lines 359-390: after the summary walk, process_username rewrites the
\* failure log and starts the download walk
start_download_walk(o) ==
  [o EXCEPT !.pc = "download", !.next_page = download_first_url,
            !.first_next_page = None, !.retry_count = 0]

\* lines 524-550: one iteration of the loop of fetch_all_models.  A request
\* that raises (transport error, undecodable body) has no handler: the
\* exception leaves fetch_all_models and process_username
sum_request ==
  /\ orch.pc = "summary"
  /\ Len(orch.trail) < MaxPageReqs
  /\ \E ok \in BOOLEAN :
       IF ~ok
       THEN /\ orch' = [orch EXCEPT !.pc = "crashed", !.attempts = 1]
            /\ failed' = failed
       ELSE LET data == remote.S[orch.next_page]
                metadata == data.metadata
                next_page == metadata.nextPage
                first_next_page == IF orch.first_next_page = None THEN next_page
                                   ELSE orch.first_next_page
                o1 == [orch EXCEPT !.next_page = next_page,
                                   !.first_next_page = first_next_page,
                                   !.summary = @ \o categorized_of(data.items),
                                   !.attempts = 1,
                                   !.trail = Append(@, Fetched("summary", orch.next_page,
                                                               next_page))]
            IN IF summary_breaks(next_page, first_next_page, metadata) \/ ~Truthy(next_page)
               THEN /\ orch' = start_download_walk(o1)
                    /\ failed' = <<>>
               ELSE /\ orch' = o1
                    /\ failed' = failed
  /\ UNCHANGED <<cfg, remote, fs, reqs, errlog, wk, pool>>

-----------------------------------------------------------------------------
(* process_username, lines 351-482 *)

\* the loop of lines 432-453 without the test of lines 435-436
RECURSIVE page_tasks_all(_, _, _)
page_tasks_all(items, ix, downloaded_item_names) ==
  IF ix > Len(items) THEN <<>>
  ELSE [vx \in 1..Len(items[ix].modelVersions) |-> <<ix, vx>>]
         \o page_tasks_all(items, ix + 1, downloaded_item_names \cup {items[ix].name})

\* lines 432-453: the (item, version) pairs submitted for a page, in order;
\* an item whose name was already seen on the page is skipped
RECURSIVE page_tasks(_, _, _)
page_tasks(items, ix, downloaded_item_names) ==
  IF ix > Len(items) THEN <<>>
  ELSE IF items[ix].name \in downloaded_item_names
       THEN page_tasks(items, ix + 1, downloaded_item_names)
       ELSE [vx \in 1..Len(items[ix].modelVersions) |-> <<ix, vx>>]
              \o page_tasks(items, ix + 1, downloaded_item_names \cup {items[ix].name})

\* the test of line 421 were it to look at the metadata alone
page_ends_walk_without_metadata(metadata, items) == ~metadata.truthy

\* line 421: a page with neither metadata nor items ends the walk
page_ends_walk(metadata, items) == ~metadata.truthy /\ items = <<>>

\* lines 401-415: what a failed page request does: TRUE when the run exits
retries_exhausted(retry_count, max_retries) == ~(retry_count < max_retries)

\* lines 392-430: the top of the loop and one request of the retry loop
dl_fetch ==
  /\ orch.pc = "download"
  /\ IF orch.next_page = None
     THEN orch' = [orch EXCEPT !.pc = "done"]
     ELSE /\ Len(orch.trail) < MaxPageReqs
          /\ \E ok \in BOOLEAN :
               IF ~ok
               THEN orch' = [orch EXCEPT
                               !.retry_count = @ + 1,
                               !.attempts = orch.retry_count + 1,
                               !.pc = IF retries_exhausted(orch.retry_count + 1, cfg.max_tries)
                                      THEN "exited" ELSE "download"]
               ELSE LET data == remote.D[orch.next_page]
                        next_page == data.metadata.nextPage
                        o1 == [orch EXCEPT
                                 !.next_page = next_page,
                                 !.attempts = orch.retry_count + 1,
                                 !.trail = Append(@, Fetched("download", orch.next_page,
                                                             next_page))]
                    IN IF page_ends_walk(data.metadata, data.items)
                       THEN orch' = [o1 EXCEPT !.pc = "done"]
                       ELSE orch' = [o1 EXCEPT
                                       !.pc = "submit",
                                       !.first_next_page = IF @ = None THEN next_page ELSE @,
                                       !.items = data.items,
                                       !.page = @ + 1,
                                       !.todo = page_tasks(data.items, 1, {})]
  /\ UNCHANGED <<cfg, remote, fs, reqs, errlog, failed, wk, pool>>

\* lines 439-453: executor.submit of the next (item, version) of the page
dl_submit ==
  /\ orch.pc = "submit"
  /\ orch.todo # <<>>
  /\ LET ix == Head(orch.todo)[1]
         vx == Head(orch.todo)[2]
     IN pool' = [pool EXCEPT !.queue = Append(@, submit_args(<<orch.run, orch.page, ix, vx>>,
                                                            orch.items[ix], vx))]
  /\ orch' = [orch EXCEPT !.todo = Tail(@)]
  /\ UNCHANGED <<cfg, remote, fs, reqs, errlog, failed, wk>>

\* the loop were it to go back to its top without the wait of lines 455-458
dl_wait_no_barrier ==
  /\ orch.pc = "submit"
  /\ orch.todo = <<>>
  /\ orch' = [orch EXCEPT !.pc = "download", !.retry_count = 0, !.items = <<>>]
  /\ UNCHANGED <<cfg, remote, fs, reqs, errlog, failed, wk, pool>>

\* lines 455-458: every future of the page has its result; the pool is shut
\* down and the loop goes back to its top (line 397 resets retry_count)
dl_wait ==
  /\ orch.pc = "submit"
  /\ orch.todo = <<>>
  /\ pool.queue = <<>>
  /\ \A w \in Workers : wk[w].st = "idle"
  /\ orch' = [orch EXCEPT !.pc = "download", !.retry_count = 0, !.items = <<>>]
  /\ UNCHANGED <<cfg, remote, fs, reqs, errlog, failed, wk, pool>>

-----------------------------------------------------------------------------
(* Specification SpecRun: process_username for one creator, with the worker   *)
(* pool, against the catalogs of CatalogPairs                                 *)

NoTask == [id |-> <<>>]

RunResponses ==
  {TransportError, Response(404, <<"t", "e", "x", "t", "/", "h", "t", "m", "l">>), Response(200, <<"a", "p", "p", "l", "i", "c", "a", "t", "i", "o", "n", "/", "o", "c", "t", "e", "t", "-", "s", "t", "r", "e", "a", "m">>)}

RunBodies == {[reset |-> FALSE, size |-> min_safetensor_size]}

InitRun ==
  \E SD \in CatalogPairs, max_tries \in 1..MaxTries, max_threads \in 1..MaxThreads :
    /\ cfg = [max_tries |-> max_tries, max_threads |-> max_threads,
              download_type |-> filter_globals(None, None).download_type,
              exclude_type |-> filter_globals(None, None).exclude_type]
    /\ remote = [NoRemote EXCEPT !.S = SD[1], !.D = SD[2],
                                  !.responses = RunResponses, !.bodies = RunBodies]
    /\ fs = EmptyFs
    /\ reqs = {}
    /\ errlog = <<>>
    /\ failed = <<>>
    /\ wk = [w \in Workers |-> IdleWorker]
    /\ orch = [IdleOrch EXCEPT !.pc = "summary", !.next_page = summary_first_url]
    /\ pool = [queue |-> <<>>, done |-> {}, input |-> NoTask]

NextRun ==
  \/ sum_request
  \/ dl_fetch
  \/ dl_submit
  \/ dl_wait
  \/ \E w \in Workers : WorkerStep(w)

SpecRun == InitRun /\ [][NextRun]_vars

-----------------------------------------------------------------------------
(* The command line, lines 31-76 *)

\* parse_args were the two options not in a mutually exclusive group
argparse_without_group(arg_download_type, arg_exclude_type) ==
  \/ arg_download_type # None /\ arg_download_type \notin VALID_DOWNLOAD_TYPES
  \/ arg_exclude_type # None /\ arg_exclude_type \notin VALID_DOWNLOAD_TYPES

\* lines 40-55: parse_args ends the program with an error when a value is not
\* among the choices, or when both options of the mutually exclusive group
\* are given
argparse_rejects(arg_download_type, arg_exclude_type) ==
  \/ arg_download_type # None /\ arg_download_type \notin VALID_DOWNLOAD_TYPES
  \/ arg_exclude_type # None /\ arg_exclude_type \notin VALID_DOWNLOAD_TYPES
  \/ arg_download_type # None /\ arg_exclude_type # None

\* lines 55-76 and 576-578: the command line is parsed, the globals are set
\* and process_username is entered
parse_args ==
  /\ orch.pc = "parse"
  /\ IF argparse_rejects(orch.argv[1], orch.argv[2])
     THEN /\ orch' = [orch EXCEPT !.pc = "rejected"]
          /\ cfg' = cfg
     ELSE LET flt == filter_globals(orch.argv[1], orch.argv[2])
          IN /\ cfg' = [cfg EXCEPT !.download_type = flt.download_type,
                                   !.exclude_type = flt.exclude_type]
             /\ orch' = [orch EXCEPT !.pc = "summary", !.next_page = summary_first_url]
  /\ UNCHANGED <<remote, fs, reqs, errlog, failed, wk, pool>>

\* the values a command line may give for either option: nothing, a valid
\* type, or a word that is no type
ArgValues == {None, <<"B", "o", "g", "u", "s">>, <<>>} \cup VALID_DOWNLOAD_TYPES

\* Specification SpecArgs: the program from its command line on, for every
\* pair of values of the two filter options, against the catalog that ends in
\* an empty page
InitArgs ==
  \E dl \in ArgValues, ex \in ArgValues, max_tries \in 1..MaxTries :
    /\ cfg = [max_tries |-> max_tries, max_threads |-> 1,
              download_type |-> None, exclude_type |-> None]
    /\ remote = [NoRemote EXCEPT !.S = Catalog_End, !.D = Catalog_End,
                                  !.responses = RunResponses, !.bodies = RunBodies]
    /\ fs = EmptyFs
    /\ reqs = {}
    /\ errlog = <<>>
    /\ failed = <<>>
    /\ wk = [w \in Workers |-> IdleWorker]
    /\ orch = [IdleOrch EXCEPT !.pc = "parse", !.argv = <<dl, ex>>]
    /\ pool = [queue |-> <<>>, done |-> {}, input |-> NoTask]

NextArgs ==
  \/ parse_args
  \/ NextRun

SpecArgs == InitArgs /\ [][NextArgs]_vars

-----------------------------------------------------------------------------
(* Specification SpecSanitize: sanitize_name called on its own, for every     *)
(* name over a small alphabet that holds path-illegal characters, in every    *)
(* context its optional arguments allow                                      *)

RECURSIVE StringsUpTo(_, _)
StringsUpTo(alphabet, n) ==
  IF n = 0 THEN {<<>>}
  ELSE LET shorter == StringsUpTo(alphabet, n - 1)
       IN shorter \cup {Append(s, c) : s \in shorter, c \in alphabet}

SanitizeAlphabet == {"a", "_", ".", ":", "/"}

SanitizeNames ==
  StringsUpTo(SanitizeAlphabet, MaxNameLen)
    \cup {<<"C", "O", "N">>, <<"c", "o", "n", ".", "a">>, <<"a", "^", "A", "b">>, <<"a", "?", "b", ".", "a", "*">>, <<"a", " ", "b", ".", "a">>, <<" ", "a", " ">>}

SanitizeFolders == {None, <<>>, <<"a">>, <<"a", ":">>}

\* the optional arguments subfolder, output_dir, username: none of them, the
\* subfolder alone (as lines 302 and 329 call it), or all three
SanitizeContexts ==
  { <<None, None, None>>, <<<<"L">>, None, None>>, <<<<"L">>, <<"o">>, <<"u">>>> }

\* the values of max_length: from too small for any name to large enough for
\* every name under the longest parent path
SanitizeMaxLengths == {Len(<<"o", "/", "u", "/", "L">>) + k : k \in {1, 3, MaxNameLen + 1}}

InitSanitize ==
  \E name \in SanitizeNames, folder_name \in SanitizeFolders,
     max_length \in SanitizeMaxLengths, ctx \in SanitizeContexts :
    /\ cfg = [max_tries |-> 1, max_threads |-> 1,
              download_type |-> filter_globals(None, None).download_type,
              exclude_type |-> filter_globals(None, None).exclude_type]
    /\ remote = NoRemote
    /\ fs = EmptyFs
    /\ reqs = {}
    /\ errlog = <<>>
    /\ failed = <<>>
    /\ wk = [w \in Workers |-> IdleWorker]
    /\ orch = [IdleOrch EXCEPT
                 !.pc = "call",
                 !.call = [args |-> [name |-> name, folder_name |-> folder_name,
                                     max_length |-> max_length, subfolder |-> ctx[1],
                                     output_dir |-> ctx[2], username |-> ctx[3]],
                           ret |-> None]]
    /\ pool = [queue |-> <<>>, done |-> {}, input |-> NoTask]

\* the call sanitize_name(name, folder_name, max_length, subfolder, output_dir, username)
sanitize_name_call ==
  /\ orch.pc = "call"
  /\ LET a == orch.call.args
     IN orch' = [orch EXCEPT
                   !.pc = "returned",
                   !.call.ret = sanitize_name(a.name, a.folder_name, a.max_length,
                                              a.subfolder, a.output_dir, a.username)]
  /\ UNCHANGED <<cfg, remote, fs, reqs, errlog, failed, wk, pool>>

NextSanitize == sanitize_name_call

SpecSanitize == InitSanitize /\ [][NextSanitize]_vars

-----------------------------------------------------------------------------
(* Specification SpecLog: a run over the two-page catalog on either kind of   *)
(* platform, the one that appends a FailureRecord in one piece and the one    *)
(* that appends each write on its own                                        *)

InitLog ==
  \E max_threads \in 1..MaxThreads, append \in {"record", "line"} :
    /\ cfg = [max_tries |-> 1, max_threads |-> max_threads,
              download_type |-> filter_globals(None, None).download_type,
              exclude_type |-> filter_globals(None, None).exclude_type]
    /\ remote = [NoRemote EXCEPT !.S = Catalog_Two, !.D = Catalog_Two,
                                  !.responses = RunResponses, !.bodies = RunBodies,
                                  !.append = append]
    /\ fs = EmptyFs
    /\ reqs = {}
    /\ errlog = <<>>
    /\ failed = <<>>
    /\ wk = [w \in Workers |-> IdleWorker]
    /\ orch = [IdleOrch EXCEPT !.pc = "summary", !.next_page = summary_first_url]
    /\ pool = [queue |-> <<>>, done |-> {}, input |-> NoTask]

NextLog ==
  \/ NextRun
  \/ \E w \in Workers : dmf_log(w)

SpecLog == InitLog /\ [][NextLog]_vars


-----------------------------------------------------------------------------
(* Specification SpecCategory: one item and one of its files, classified by   *)
(* the summary walk (categorize_item) and then stored by download_model_files *)

\* the declared types: those of the site, in the letter cases an item can
\* carry, and None for an item without the key
CategoryTypes ==
  {None, <<"L", "O", "R", "A">>, <<"L", "o", "r", "a">>, <<"l", "o", "r", "a">>, <<"C", "h", "e", "c", "k", "p", "o", "i", "n", "t">>, <<"C", "H", "E", "C", "K", "P", "O", "I", "N", "T">>, <<"c", "h", "e", "c", "k", "p", "o", "i", "n", "t">>,
   <<"T", "e", "x", "t", "u", "a", "l", "I", "n", "v", "e", "r", "s", "i", "o", "n">>, <<"T", "E", "X", "T", "U", "A", "L", "I", "N", "V", "E", "R", "S", "I", "O", "N">>, <<"T", "r", "a", "i", "n", "i", "n", "g", "_", "D", "a", "t", "a">>, <<"T", "R", "A", "I", "N", "I", "N", "G", "_", "D", "A", "T", "A">>,
   <<"V", "A", "E">>, <<"L", "o", "C", "o", "n">>, <<"H", "y", "p", "e", "r", "n", "e", "t", "w", "o", "r", "k">>}

CategoryFileNames ==
  {<<"a", ".", "s", "a", "f", "e", "t", "e", "n", "s", "o", "r", "s">>, <<"a", ".", "z", "i", "p">>, <<"a", ".", "p", "t">>, <<"a", ".", "c", "k", "p", "t">>, <<"a", ".", "b", "i", "n">>, <<"a", ".", "Z", "I", "P">>, <<>>}

InitCategory ==
  \E type \in CategoryTypes, file_name \in CategoryFileNames :
    /\ cfg = [max_tries |-> 1, max_threads |-> 1,
              download_type |-> filter_globals(None, None).download_type,
              exclude_type |-> filter_globals(None, None).exclude_type]
    /\ remote = NoRemote
    /\ fs = EmptyFs
    /\ reqs = {}
    /\ errlog = <<>>
    /\ failed = <<>>
    /\ wk = [w \in Workers |-> IdleWorker]
    /\ orch = [IdleOrch EXCEPT
                 !.pc = "summary",
                 !.call = [args |-> [item |-> CatalogItem(1, <<"A">>, type # None, type,
                                                          <<ModelVersion(None,
                                                              <<FileEntry(file_name, <<"h", "t", "t", "p", "s", ":", "/", "/", "h", "/", "f">>)>>,
                                                              <<>>)>>)],
                           ret |-> [category |-> None, subfolder |-> None]]]
    /\ pool = [queue |-> <<>>, done |-> {}, input |-> NoTask]

\* lines 527-529: the summary walk classifies the item
summary_categorize ==
  /\ orch.pc = "summary"
  /\ orch' = [orch EXCEPT !.pc = "download",
                          !.call.ret.category = categorize_item(orch.call.args.item)]
  /\ UNCHANGED <<cfg, remote, fs, reqs, errlog, failed, wk, pool>>

\* lines 225-255: download_model_files computes the subfolder of the file
download_subfolder ==
  /\ orch.pc = "download"
  /\ orch.call.ret.subfolder = None
  /\ LET item == orch.call.args.item
         file == item.modelVersions[1].files[1]
     IN orch' = [orch EXCEPT !.call.ret.subfolder = subfolder_of(file.name, item)]
  /\ UNCHANGED <<cfg, remote, fs, reqs, errlog, failed, wk, pool>>

NextCategory == summary_categorize \/ download_subfolder

SpecCategory == InitCategory /\ [][NextCategory]_vars

-----------------------------------------------------------------------------
(* Specification SpecWalk: process_username over catalogs whose pages form a  *)
(* finite chain of distinct cursors, with every page request succeeding       *)
(* within the retry bound; the threads and the main loop are scheduled fairly *)

\* a chain whose last page has items and no metadata object
Catalog_Bare ==
  (summary_first_url :> Page_B(Cursor1)) @@ (Cursor1 :> Page(<<Item_A_again>>, FALSE, None))

FiniteChains == {Catalog_Two, Catalog_End, Catalog_Bare}

InitWalk ==
  \E cat \in FiniteChains, max_tries \in 1..MaxTries :
    /\ cfg = [max_tries |-> max_tries, max_threads |-> 1,
              download_type |-> filter_globals(None, None).download_type,
              exclude_type |-> filter_globals(None, None).exclude_type]
    /\ remote = [NoRemote EXCEPT !.S = cat, !.D = cat,
                                  !.responses = RunResponses, !.bodies = RunBodies]
    /\ fs = EmptyFs
    /\ reqs = {}
    /\ errlog = <<>>
    /\ failed = <<>>
    /\ wk = [w \in Workers |-> IdleWorker]
    /\ orch = [IdleOrch EXCEPT !.pc = "summary", !.next_page = summary_first_url]
    /\ pool = [queue |-> <<>>, done |-> {}, input |-> NoTask]

\* a request of the summary walk that the remote serves
sum_request_served == sum_request /\ orch'.pc # "crashed"

\* a request of the download walk that the remote serves, or lets fail while
\* a retry remains
dl_fetch_served == dl_fetch /\ orch'.pc # "exited"

\* the steps of the main thread
main_loop ==
  \/ sum_request_served
  \/ dl_fetch_served
  \/ dl_submit
  \/ dl_wait

NextWalk ==
  \/ main_loop
  \/ \E w \in Workers : WorkerStep(w)

\* the steps of a pool thread outside the heads of the two loops
thread_step(w) ==
  \/ worker_take(w)
  \/ dmf_begin_images(w)
  \/ dmf_after(w)
  \/ dmf_return(w)
  \/ dfi_step_exists(w)
  \/ dfi_step_get(w)
  \/ dfi_step_open(w)
  \/ dfi_step_stream(w)
  \/ dfi_step_getsize(w)

\* line 225: the thread is at the head of the loop over files with a file left
in_file_loop(w) == wk[w].st = "files" /\ wk[w].fi <= Len(wk[w].task.version.files)

\* line 324: the thread is at the head of the loop over images with one left
in_image_loop(w) == wk[w].st = "images" /\ wk[w].ii <= Len(wk[w].task.version.images)

\* the main thread and every pool thread keep running: a step that stays
\* possible is taken.  For dmf_file and dmf_image weak fairness is written
\* out, their enabling conditions being in_file_loop and in_image_loop
Scheduling ==
  /\ WF_vars(main_loop)
  /\ \A w \in Workers :
       /\ WF_vars(thread_step(w))
       /\ ([]<>~in_file_loop(w) \/ []<><<dmf_file(w)>>_vars)
       /\ ([]<>~in_image_loop(w) \/ []<><<dmf_image(w)>>_vars)

SpecWalk == InitWalk /\ [][NextWalk]_vars /\ Scheduling

-----------------------------------------------------------------------------
(* Specification SpecEntries: download_model_files on versions whose file     *)
(* and image entries lack a name, a URL or an id                              *)

\* file.get('name', '') and file.get('downloadUrl', ''): a missing key reads
\* as the empty string
File_no_name == FileEntry(<<>>, <<"h", "t", "t", "p", "s", ":", "/", "/", "h", "/", "f", "n">>)

File_no_url == FileEntry(<<"n", ".", "z", "i", "p">>, <<>>)

File_nothing == FileEntry(<<>>, <<>>)

\* image.get('id', '') and image.get('url', ''); the id 0 stands for a
\* missing or empty id
Image_no_id == ImageEntry(0, <<"h", "t", "t", "p", "s", ":", "/", "/", "h", "/", "i", "0">>)

Image_no_url == ImageEntry(9, <<>>)

EntryFiles == {File_a_zip, File_no_name, File_no_url, File_nothing}

EntryImages == {Image_7, Image_no_id, Image_no_url}

EntryItems ==
  { CatalogItem(42, <<"A">>, TRUE, <<"L", "O", "R", "A">>, <<ModelVersion(<<"S", "D", "1">>, <<f1, f2>>, <<i1, i2>>)>>) :
      f1 \in EntryFiles, f2 \in EntryFiles, i1 \in EntryImages, i2 \in EntryImages }

InitEntries ==
  InitTask(EntryItems, {<<None, None>>}, {1}, {FALSE},
           {TransportError, Response(200, <<"a", "p", "p", "l", "i", "c", "a", "t", "i", "o", "n", "/", "o", "c", "t", "e", "t", "-", "s", "t", "r", "e", "a", "m">>)},
           {[reset |-> FALSE, size |-> min_safetensor_size]})

SpecEntries == InitEntries /\ [][NextTask]_vars

-----------------------------------------------------------------------------
(* Specification SpecImages: download_model_files, under every filter the     *)
(* command line accepts, on versions that have images and no file, one file   *)
(* or two files of different categories                                       *)

ImageVersions ==
  { ModelVersion(<<"S", "D", "1">>, <<>>, <<Image_7>>),
    ModelVersion(<<"S", "D", "1">>, <<File_a_zip>>, <<Image_7>>),
    ModelVersion(<<"S", "D", "1">>, <<File_c_pt, File_a_zip>>, <<Image_7>>),
    ModelVersion(None, <<File_b_safetensors, File_c_pt>>, <<Image_7, Image_8>>) }

ImageItems ==
  { CatalogItem(42, <<"A">>, ty[1], ty[2], <<version>>) :
      ty \in ItemTypes, version \in ImageVersions }

InitImages ==
  InitTask(ImageItems, FilterArgs, {1}, {FALSE},
           {TransportError, Response(404, <<"t", "e", "x", "t", "/", "h", "t", "m", "l">>),
            Response(200, <<"a", "p", "p", "l", "i", "c", "a", "t", "i", "o", "n", "/", "o", "c", "t", "e", "t", "-", "s", "t", "r", "e", "a", "m">>)},
           {[reset |-> FALSE, size |-> min_safetensor_size]})

SpecImages == InitImages /\ [][NextTask]_vars
-----------------------------------------------------------------------------
(* Claims about download_file_or_image and download_model_files, checked     *)
(* under SpecTask and SpecFilter                                             *)

\* the frames of the calls of download_file_or_image that are active or have
\* just returned
Frames == {wk[w].fr : w \in {v \in Workers : wk[v].st = "call"}}

\* C1: a call whose destination already exists returns False at once, has
\* issued no request, has opened no file, and the file at the destination is
\* the one that was there; this holds for every such call, the second of two
\* in a row included
C1_SkipWhenPresent ==
  \A fr \in Frames :
    fr.existed =>
      /\ fr.pc = "ret"
      /\ fr.result = FALSE
      /\ fr.nreq = 0
      /\ fr.wrote = {}
      /\ \A r \in reqs : r.by # fr.who
      /\ os_path_exists(fs, fr.dest)
      /\ fs[fr.dest] = fr.before

\* C1 witness: the second of two calls in a row with the same destination,
\* present before the first, has returned; the first returned False too (its
\* FailureRecord is in the log) and no request was ever issued
C1_Witness ==
  \E fr \in Frames :
    /\ fr.pc = "ret"
    /\ fr.existed
    /\ fr.who.idx = 2
    /\ fr.dest = planned_file_path(pool.input, 1)
    /\ fr.before = OldContent
    /\ Len(failed) = 3
    /\ reqs = {}

\* every request of the call failed: transport error, timeout or 5xx before
\* the body, or a reset while streaming
AllRequestsFailed(fr) ==
  /\ fr.nreq >= 1
  /\ \A i \in 1..Len(fr.outs) : fr.outs[i] \in {"fail", "reset", "skip"}

\* the FailureRecords of the log written for the call of `who`
FailureRecordsOf(who) ==
  {i \in 1..Len(failed) : failed[i].t \in {"File URL", "Image URL"} /\ failed[i].by = who}

\* C2: a call all of whose requests failed has, when it returns, issued
\* exactly max_retries requests and returns False; and once the task has
\* taken the result of a call that exhausted its retries, the failure log
\* holds exactly one FailureRecord for it
C2_RetryBound ==
  /\ \A fr \in Frames :
       fr.pc = "ret" /\ AllRequestsFailed(fr) =>
         fr.nreq = fr.max_retries /\ fr.result = FALSE
  /\ \A i \in 1..Len(errlog) :
       (\A fr \in Frames : fr.who # errlog[i].by) =>
         Cardinality(FailureRecordsOf(errlog[i].by)) = 1

\* C4: in a second run over the same catalog, after a first run in which
\* every download succeeded, no download request is issued
C4_NoRequestInSecondRun ==
  \A r \in reqs : r.by.task[1] # 2

\* C7: a call whose first response is a 404 has returned False after that one
\* request, without a retry, and has opened no file; nothing is at the destination
C7_NotFoundIsTerminal ==
  \A fr \in Frames :
    (Len(fr.seen) >= 1 /\ fr.seen[1] = 404) =>
      /\ fr.pc = "ret"
      /\ fr.result = FALSE
      /\ fr.nreq = 1
      /\ fr.retry_count = 0
      /\ fr.outs = <<"404">>
      /\ fr.wrote = {}
      /\ ~os_path_exists(fs, fr.dest)

\* C7 witness: a 404 on the first request of a call that could have retried
\* MaxTries times
C7_Witness ==
  \E fr \in Frames :
    /\ fr.seen = <<404>>
    /\ fr.pc = "ret"
    /\ fr.max_retries = MaxTries
    /\ MaxTries >= 2

\* the download of a call has completed with fewer than 4 MiB at the planned
\* destination, a .safetensors model file
UndersizedModelFile(fr) ==
  /\ endswith(fr.dest, <<".", "s", "a", "f", "e", "t", "e", "n", "s", "o", "r", "s">>)
  /\ fr.output_path = fr.dest
  /\ fr.dest \in fr.wrote
  /\ os_path_exists(fs, fr.dest)
  /\ fs[fr.dest].by = fr.who
  /\ fs[fr.dest].size < min_safetensor_size

\* C9: a call that has left an undersized .safetensors file does not return
\* True; and an undersized result, while attempts remain, is followed by a new
\* request, not by a return
C9_UndersizedIsRetried ==
  \A fr \in Frames :
    /\ (fr.pc = "ret" /\ UndersizedModelFile(fr)) => fr.result = FALSE
    /\ \A i \in 1..Len(fr.outs) :
         (fr.outs[i] = "short" /\ i <= fr.max_retries /\ i < Len(fr.outs)) =>
           fr.outs[i + 1] # "skip"

\* the category download_model_files computes for file idx of the task
ComputedCategory(task, idx) == subfolder_of(task.version.files[idx].name, task.item)

\* the filter admits the category: an include filter other than All names it,
\* an exclude filter does not
FilterAdmits(category) ==
  /\ (cfg.download_type # None /\ cfg.download_type # <<"A", "l", "l">>) => category = cfg.download_type
  /\ cfg.exclude_type # None => category # cfg.exclude_type

\* C10: every file for which download_file_or_image is called, and so every
\* file for which a request is issued, has a category the filter admits
C10_ExcludedNeverAttempted ==
  /\ \A r \in reqs :
       r.by.kind = "file" => FilterAdmits(ComputedCategory(pool.input, r.by.idx))
  /\ \A fr \in Frames :
       fr.who.kind = "file" => FilterAdmits(ComputedCategory(pool.input, fr.who.idx))
  /\ \A w \in Workers : \A i \in 1..Len(wk[w].tried) :
       wk[w].tried[i][1] = "file" =>
         FilterAdmits(ComputedCategory(pool.input, wk[w].tried[i][2]))

\* C10 witness: under a filter that names one category, the first file of a
\* version was skipped by the filter and a request was issued for the second
C10_Witness ==
  /\ cfg.download_type \notin {None, <<"A", "l", "l">>}
  /\ Len(pool.input.version.files) = 2
  /\ ~FilterAdmits(ComputedCategory(pool.input, 1))
  /\ \E r \in reqs : r.by.kind = "file" /\ r.by.idx = 2
  /\ \A r \in reqs : ~(r.by.kind = "file" /\ r.by.idx = 1)

\* C10 second witness state, under an exclude filter
C10_WitnessExclude ==
  /\ cfg.exclude_type \notin {None, <<"A", "l", "l">>}
  /\ Len(pool.input.version.files) = 2
  /\ ~FilterAdmits(ComputedCategory(pool.input, 1))
  /\ \E r \in reqs : r.by.kind = "file" /\ r.by.idx = 2

-----------------------------------------------------------------------------
(* Claims about the two catalog walks and the worker pool, checked under     *)
(* SpecRun                                                                   *)

\* the positions in the history of the page requests of one walk that succeeded
FetchesOf(walk) == {i \in 1..Len(orch.trail) : orch.trail[i].walk = walk}

\* the walk received, at position i, a response that repeats the first
\* nextPage the walk has seen
RepeatSeenAt(walk, i) ==
  LET first == CHOOSE k \in FetchesOf(walk) : \A j \in FetchesOf(walk) : k <= j
  IN /\ i \in FetchesOf(walk)
     /\ i > first
     /\ Truthy(orch.trail[first].next)
     /\ orch.trail[i].next = orch.trail[first].next

\* C3: in either walk, once a response has repeated the first nextPage seen,
\* the walk issues no further page request
C3_RepeatedCursorHalts ==
  \A walk \in {"summary", "download"} :
    \A i \in FetchesOf(walk) :
      RepeatSeenAt(walk, i) => \A j \in FetchesOf(walk) : j <= i

\* C3, for the download walk alone
C3_DownloadWalkHalts ==
  \A i \in FetchesOf("download") :
    RepeatSeenAt("download", i) => \A j \in FetchesOf("download") : j <= i

\* the k-th page the download walk received
DownloadPage(k) ==
  LET n == CHOOSE i \in FetchesOf("download") :
             Cardinality({j \in FetchesOf("download") : j <= i}) = k
  IN remote.D[orch.trail[n].url]

\* the task with identity id = <<run, page, item, version>>
TaskOf(id) == submit_args(id, DownloadPage(id[2]).items[id[3]], id[4])

\* the downloads that returned True, and so wrote their destination, in the
\* tasks that are running or have finished
Downloaded ==
  UNION { {[task |-> wk[w].task.id, kind |-> wk[w].results[i][1], idx |-> wk[w].results[i][2]] :
             i \in {j \in 1..Len(wk[w].results) : wk[w].results[j][3]}} :
          w \in {v \in Workers : wk[v].st # "idle"} }
    \cup UNION { {[task |-> d.id, kind |-> d.results[i][1], idx |-> d.results[i][2]] :
                    i \in {j \in 1..Len(d.results) : d.results[j][3]}} : d \in pool.done }
    \cup {fr.who : fr \in {f \in Frames : f.pc = "ret" /\ f.result}}

\* C5: of the tasks of one page, at most one requests and writes a given file
\* destination
C5_FirstWriterWins ==
  \A a, b \in {c \in Downloaded : c.kind = "file"} :
    ( /\ a.task[2] = b.task[2]
      /\ planned_file_path(TaskOf(a.task), a.idx) = planned_file_path(TaskOf(b.task), b.idx) )
    => a.task = b.task

\* C6: the run aborts on a failing catalog request only when that request has
\* been attempted max_tries times; this holds in the summary walk as in the
\* download walk
C6_AbortAfterMaxTries ==
  orch.pc \in {"crashed", "exited"} => orch.attempts = cfg.max_tries

\* the indices 1..n in order
Indices(n) == [i \in 1..n |-> i]

\* the files and images of a version that are to be downloaded under the
\* filter: the files the filter admits and that have a name and a URL, then,
\* if a file was admitted, the images that have an id and a URL
EntriesToDownload(task) ==
  LET files == task.version.files
      images == task.version.images
      admitted(i) == FilterAdmits(subfolder_of(files[i].name, task.item))
      file_wanted(i) == admitted(i) /\ Truthy(files[i].name)
      image_wanted(i) == images[i].id # 0 /\ Truthy(images[i].url)
      fsel == SelectSeq(Indices(Len(files)), file_wanted)
      isel == IF \E i \in 1..Len(files) : admitted(i)
              THEN SelectSeq(Indices(Len(images)), image_wanted)
              ELSE <<>>
  IN [i \in 1..Len(fsel) |-> <<"file", fsel[i]>>] \o [i \in 1..Len(isel) |-> <<"image", isel[i]>>]

\* the tasks of the k-th page: every version of the first item of each name
TasksOfPage(k) ==
  LET items == DownloadPage(k).items
      firsts == {i \in 1..Len(items) : \A j \in 1..(i - 1) : items[j].name # items[i].name}
  IN UNION { {<<1, k, ix, vx>> : vx \in 1..Len(items[ix].modelVersions)} : ix \in firsts }

\* C8: a finished task has called the download for every entry of its version
\* that was to be downloaded, whatever the results, and the failure log holds
\* one FailureRecord for each call that returned False; and when the download
\* walk has ended, every task of every page it received has finished
C8_FailuresDoNotAbort ==
  /\ \A d \in pool.done :
       /\ d.tried = EntriesToDownload(TaskOf(d.id))
       /\ Len(d.results) = Len(d.tried)
       /\ \A i \in 1..Len(d.results) :
            /\ d.results[i][1] = d.tried[i][1]
            /\ d.results[i][2] = d.tried[i][2]
            /\ ~d.results[i][3] =>
                 Cardinality(FailureRecordsOf([task |-> d.id, kind |-> d.results[i][1],
                                               idx |-> d.results[i][2]])) = 1
  /\ orch.pc = "done" =>
       {d.id : d \in pool.done}
         = UNION {TasksOfPage(k) : k \in 1..Cardinality(FetchesOf("download"))}

\* C8 witness: the walk over the two-page catalog has ended; on the first page
\* the file of the first task failed after its retries and its image was
\* downloaded all the same, the file of the second task got a 404, and the
\* task of the second page downloaded its file
C8_Witness ==
  /\ orch.pc = "done"
  /\ \E d1, d2, d3 \in pool.done :
       /\ d1.id = <<1, 1, 1, 1>>
       /\ d1.results = << <<"file", 1, FALSE>>, <<"image", 1, TRUE>> >>
       /\ \E i \in 1..Len(errlog) : errlog[i].by = [task |-> d1.id, kind |-> "file", idx |-> 1]
       /\ d2.id = <<1, 1, 1, 2>>
       /\ d2.results = << <<"file", 1, FALSE>> >>
       /\ \A i \in 1..Len(errlog) : errlog[i].by.task # d2.id
       /\ \E r \in reqs : r.by.task = d2.id
       /\ d3.id[2] = 2
       /\ d3.results[1] = <<"file", 1, TRUE>>

-----------------------------------------------------------------------------
(* Claims about the command line, checked under SpecArgs *)

\* C11: when the command line gives both --download_type and --exclude_type,
\* the program is rejected at parse_args: neither filter global is set, no
\* catalog page is requested, no task is submitted and no download is requested
C11_BothFiltersRejected ==
  (orch.argv[1] # None /\ orch.argv[2] # None) =>
    /\ orch.pc \in {"parse", "rejected"}
    /\ cfg.download_type = None /\ cfg.exclude_type = None
    /\ orch.trail = <<>> /\ orch.attempts = 0
    /\ pool.queue = <<>> /\ pool.done = {}
    /\ \A w \in Workers : wk[w].st = "idle"
    /\ reqs = {}

\* C11 witness: a command line with two valid types, one for each option, has
\* been rejected
C11_Witness ==
  /\ orch.pc = "rejected"
  /\ orch.argv[1] \in VALID_DOWNLOAD_TYPES
  /\ orch.argv[2] \in VALID_DOWNLOAD_TYPES
  /\ orch.argv[1] # orch.argv[2]

-----------------------------------------------------------------------------
(* Claims about sanitize_name, checked under SpecSanitize *)

\* C12: what sanitize_name returns holds none of the characters
\* < > : " / \ | ? * and no control character
C12_NoIllegalCharacter ==
  orch.pc = "returned" =>
    \A i \in 1..Len(orch.call.ret) : orch.call.ret[i] \notin IllegalChars

\* the parent path the optional arguments of a call give: the parts given, joined
ParentPathLength(a) ==
  LET parts == SelectSeq(<<a.output_dir, a.username, a.subfolder>>, Truthy)
  IN IF parts = <<>> THEN 0 ELSE Len(os_path_join(parts))

\* the sanitized name before any shortening
Unshortened(a) == sanitize_name(a.name, a.folder_name, a.max_length, None, None, None)

\* C13, first part: the name returned, added to the parent path, is within
\* max_length whenever the extension alone is
C13_WithinBudget ==
  orch.pc = "returned" =>
    LET a == orch.call.args
    IN Len(splitext(Unshortened(a))[2]) + ParentPathLength(a) <= a.max_length
         => Len(orch.call.ret) + ParentPathLength(a) <= a.max_length

\* C13, second part: a name that fits is returned unshortened
C13_FittingNameKept ==
  orch.pc = "returned" =>
    LET a == orch.call.args
    IN Len(Unshortened(a)) + ParentPathLength(a) <= a.max_length
         => orch.call.ret = Unshortened(a)

\* C13: the name sanitize_name returns, added to the parent path, is within
\* max_length; the extension is kept whole; a name that fits is not shortened
C13_PathLengthBudget ==
  /\ C13_WithinBudget
  /\ C13_FittingNameKept
  /\ orch.pc = "returned" =>
       endswith(orch.call.ret, splitext(Unshortened(orch.call.args))[2])

-----------------------------------------------------------------------------
(* Claims about the worker pool, checked under SpecRun *)

\* the tasks that are queued or running
Unfinished == Len(pool.queue) + Cardinality({w \in Workers : wk[w].st # "idle"})

\* C14: whenever the download walk is at the point where it requests a page,
\* and at every page request it has made, no task is queued or running, and
\* every task of every page received so far has finished
C14_PageBarrier ==
  /\ \A i \in FetchesOf("download") : orch.trail[i].busy = 0
  /\ orch.pc = "download" =>
       /\ Unfinished = 0
       /\ {d.id : d \in pool.done}
            = UNION {TasksOfPage(k) : k \in 1..Cardinality(FetchesOf("download"))}

\* C14 witness: with two threads, the second page has been requested after the
\* two tasks of the first page finished
C14_Witness ==
  /\ cfg.max_threads >= 2
  /\ Cardinality(FetchesOf("download")) = 2
  /\ Cardinality(TasksOfPage(1)) = 2
  /\ TasksOfPage(1) \subseteq {d.id : d \in pool.done}

\* C15: the tasks running at the same time are at most max_threads
C15_BoundedConcurrency ==
  Cardinality({w \in Workers : wk[w].st # "idle"}) <= cfg.max_threads

\* C15 witness: a task runs while
\* another task waits in the queue of a pool of width 1
C15_Witness ==
  /\ cfg.max_threads = 1
  /\ MaxThreads >= 2
  /\ pool.queue # <<>>
  /\ Cardinality({w \in Workers : wk[w].st # "idle"}) = 1

-----------------------------------------------------------------------------
(* Claims about the failure log, checked under SpecLog *)

-----------------------------------------------------------------------------
(* Further claims about download_file_or_image and its caller, checked under *)
(* SpecTask                                                                  *)

\* the attempt failed after the destination file was created: the stream
\* broke, or the file came out too small
FailedAfterCreation(out) == out \in {"reset", "short"}

\* C17: after an attempt that failed once the file was created, the retry
\* finds the destination absent and issues a new request instead of skipping;
\* and when the call has returned False after such an attempt, none of the
\* paths it opened exists
C17_NoPartialFileSurvives ==
  \A fr \in Frames :
    /\ \A i \in 1..(Len(fr.outs) - 1) :
         FailedAfterCreation(fr.outs[i]) => fr.outs[i + 1] # "skip"
    /\ ( /\ fr.pc = "exists"
         /\ fr.outs # <<>>
         /\ FailedAfterCreation(fr.outs[Len(fr.outs)]) )
       => ~os_path_exists(fs, fr.output_path)
    /\ ( /\ fr.pc = "ret"
         /\ ~fr.result
         /\ \E i \in 1..Len(fr.outs) : FailedAfterCreation(fr.outs[i]) )
       => \A p \in fr.wrote : ~os_path_exists(fs, p)

\* C18: every FailureRecord of the failure log is for a call that issued a
\* request; a call that found its destination present and issued none has no
\* FailureRecord
C18_SkipIsNotAnError ==
  \A i \in 1..Len(failed) :
    failed[i].t \in {"File URL", "Image URL"} => \E r \in reqs : r.by = failed[i].by


\* the identities of the tasks submitted so far: queued, running or finished
Submitted ==
  {pool.queue[i].id : i \in 1..Len(pool.queue)}
    \cup {wk[w].task.id : w \in {v \in Workers : wk[v].st # "idle"}}
    \cup {d.id : d \in pool.done}

\* the pages of the download walk whose loop over the items has ended
PagesSubmitted ==
  {k \in 1..orch.page : k < orch.page \/ orch.pc # "submit" \/ orch.todo = <<>>}

\* C19: no task is submitted for an item that follows, on its page, an item
\* of the same name; and on every page, the pages after the first included,
\* each version of the first item of every name is submitted, whatever the
\* names of the pages before
C19_DedupPerPage ==
  /\ \A id \in Submitted :
       LET items == DownloadPage(id[2]).items
       IN \A j \in 1..(id[3] - 1) : items[j].name # items[id[3]].name
  /\ \A k \in PagesSubmitted :
       LET items == DownloadPage(k).items
       IN \A ix \in 1..Len(items) :
            (\A j \in 1..(ix - 1) : items[j].name # items[ix].name) =>
              \A vx \in 1..Len(items[ix].modelVersions) : <<orch.run, k, ix, vx>> \in Submitted

\* C19 witness: the first page held two items of one name and different ids;
\* the two versions of the first were submitted and have finished, nothing was
\* submitted for the second, and the walk has gone on to the next page
C19_Witness ==
  /\ orch.page = 2
  /\ LET items == DownloadPage(1).items
     IN /\ Len(items) = 2
        /\ items[1].name = items[2].name
        /\ items[1].id # items[2].id
  /\ {<<1, 1, 1, 1>>, <<1, 1, 1, 2>>} \subseteq {d.id : d \in pool.done}
  /\ \A id \in Submitted : ~(id[2] = 1 /\ id[3] = 2)

\* C19 second witness state: the name of the item of the first page comes
\* again on the second page and is submitted again
C19_WitnessLaterPage ==
  /\ orch.page = 2
  /\ DownloadPage(1).items[1].name = DownloadPage(2).items[1].name
  /\ {<<1, 1, 1, 1>>, <<1, 2, 1, 1>>} \subseteq Submitted

\* C20: the category directory under which the file of an item is stored is
\* the category the summary walk gave the item, whatever the name of the file
\* and the letter case of the type
C20_CategoryOfTypeOnly ==
  orch.call.ret.subfolder # None => orch.call.ret.subfolder = orch.call.ret.category

\* the URLs of the pages of a catalog in cursor order, from url on
RECURSIVE CursorChain(_, _, _)
CursorChain(cat, url, n) ==
  IF url = None \/ n = 0 THEN <<>>
  ELSE <<url>> \o CursorChain(cat, cat[url].metadata.nextPage, n - 1)

\* the URLs of the successful page requests of the download walk, in order
DownloadRequests ==
  LET sel == SelectSeq(orch.trail, LAMBDA t : t.walk = "download")
  IN [i \in 1..Len(sel) |-> sel[i].url]

\* the download walk over a finite chain has ended as it should: the run is
\* at its end with no task left, the pages requested are those of the chain,
\* each once and in cursor order, every task of every page has finished, and
\* no task was scheduled for a page without items
WalkCompleted ==
  LET chain == CursorChain(remote.D, download_first_url, Cardinality(DOMAIN remote.D))
  IN /\ orch.pc = "done"
     /\ pool.queue = <<>>
     /\ \A w \in Workers : wk[w].st = "idle"
     /\ DownloadRequests = chain
     /\ \A k \in 1..Len(chain) :
          LET items == remote.D[chain[k]].items
          IN \A ix \in 1..Len(items) :
               (\A j \in 1..(ix - 1) : items[j].name # items[ix].name) =>
                 \A vx \in 1..Len(items[ix].modelVersions) :
                   \E d \in pool.done : d.id = <<orch.run, k, ix, vx>>
     /\ \A d \in pool.done : remote.D[chain[d.id[2]]].items # <<>>

\* C21: over a finite chain of distinct cursors, with every page request
\* succeeding within the retry bound, the download walk requests each page
\* once and in cursor order, runs the tasks of each page, and ends; a last
\* page without items and metadata ends it with no task scheduled
C21_FiniteTraversal == <>WalkCompleted

\* C21 witness: the walk over the chain that ends in an empty page without
\* metadata has ended; the first page request had to be retried; both pages
\* were requested, and the only task is that of the first page
C21_Witness ==
  /\ orch.pc = "done"
  /\ remote.D = Catalog_End
  /\ cfg.max_tries >= 2
  /\ DownloadRequests = <<download_first_url, Cursor1>>
  /\ {d.id : d \in pool.done} = {<<1, 1, 1, 1>>}

\* C21 second witness state: the chain whose last page has no nextPage
C21_WitnessNoNextPage ==
  /\ orch.pc = "done"
  /\ remote.D = Catalog_Two
  /\ DownloadRequests = <<download_first_url, Cursor1>>
  /\ {d.id : d \in pool.done} = {<<1, 1, 1, 1>>, <<1, 1, 1, 2>>, <<1, 2, 1, 1>>}

\* the calls of download_file_or_image the task has made so far, as
\* <<kind, index>> pairs
Attempted ==
  UNION {{wk[w].tried[i] : i \in 1..Len(wk[w].tried)} : w \in Workers}
    \cup UNION {{d.tried[i] : i \in 1..Len(d.tried)} : d \in pool.done}

\* nothing was done for the entry: no call of download_file_or_image, no
\* request, no FailureRecord
EntrySkipped(kind, idx) ==
  /\ <<kind, idx>> \notin Attempted
  /\ \A r \in reqs : ~(r.by.kind = kind /\ r.by.idx = idx)
  /\ \A i \in 1..Len(failed) : ~(failed[i].by.kind = kind /\ failed[i].by.idx = idx)

\* C22: for a file entry whose name or downloadUrl is empty and for an image
\* entry whose id or url is empty, there is no download request and no
\* FailureRecord
C22_InvalidNeverAttempted ==
  LET files == pool.input.version.files
      images == pool.input.version.images
  IN /\ \A i \in 1..Len(files) :
          (~Truthy(files[i].name) \/ ~Truthy(files[i].downloadUrl)) => EntrySkipped("file", i)
     /\ \A i \in 1..Len(images) :
          (images[i].id = 0 \/ ~Truthy(images[i].url)) => EntrySkipped("image", i)

\* C22, for the entries the code does skip: a file without a name, an image
\* without id or url
C22_NamelessAndImagesSkipped ==
  LET files == pool.input.version.files
      images == pool.input.version.images
  IN /\ \A i \in 1..Len(files) : ~Truthy(files[i].name) => EntrySkipped("file", i)
     /\ \A i \in 1..Len(images) :
          (images[i].id = 0 \/ ~Truthy(images[i].url)) => EntrySkipped("image", i)

\* C22: a file entry with a name and no downloadUrl never gets a FailureRecord
C22_NoRecordForMissingUrl ==
  LET files == pool.input.version.files
  IN \A i \in 1..Len(files) :
       ~Truthy(files[i].downloadUrl) =>
         \A k \in 1..Len(failed) : ~(failed[k].by.kind = "file" /\ failed[k].by.idx = i)

\* the histories of the runs of the task: the calls made and the results
\* taken, of the run in progress and of the runs that have returned
TaskHistories ==
  {[tried |-> wk[w].tried, results |-> wk[w].results] :
      w \in {v \in Workers : wk[v].st # "idle"}}
    \cup {[tried |-> d.tried, results |-> d.results] : d \in pool.done}

\* file i of the version is behind the task: the filter rejected it, or it
\* has no name, or the call for it has returned
FileHandled(h, i) ==
  \/ ~FilterAdmits(ComputedCategory(pool.input, i))
  \/ ~Truthy(pool.input.version.files[i].name)
  \/ \E k \in 1..Len(h.results) : h.results[k][1] = "file" /\ h.results[k][2] = i

\* C23: when a task has called the download for an image, and so whenever an
\* image request exists, every file of the version has been attempted or
\* filtered out and at least one file passed the filter; a version without a
\* file, or with every file filtered out, has no image call and no image request
C23_ImagesGatedOnFiles ==
  LET files == pool.input.version.files
      passed == {i \in 1..Len(files) : FilterAdmits(ComputedCategory(pool.input, i))}
  IN /\ \A h \in TaskHistories :
          (\E k \in 1..Len(h.tried) : h.tried[k][1] = "image") =>
            /\ passed # {}
            /\ \A i \in 1..Len(files) : FileHandled(h, i)
     /\ (\E r \in reqs : r.by.kind = "image") => passed # {}
     /\ \A fr \in Frames : fr.who.kind = "image" => passed # {}
     /\ passed = {} =>
          \A h \in TaskHistories : \A k \in 1..Len(h.tried) : h.tried[k][1] # "image"

\* C23 witness: under a filter that names one category, the first file of the
\* version was filtered out, the second was attempted and failed, and a
\* request for the image was issued after that
C23_Witness ==
  /\ cfg.download_type \notin {None, <<"A", "l", "l">>}
  /\ Len(pool.input.version.files) = 2
  /\ ~FilterAdmits(ComputedCategory(pool.input, 1))
  /\ \E h \in TaskHistories :
       /\ h.tried = << <<"file", 2>>, <<"image", 1>> >>
       /\ Len(h.results) >= 1
       /\ h.results[1] = <<"file", 2, FALSE>>
  /\ \E r \in reqs : r.by.kind = "image" /\ r.by.idx = 1

\* C23 second witness state: every file of the version was filtered out and
\* the task has returned without a call for its image
C23_WitnessAllFiltered ==
  /\ Len(pool.input.version.files) = 2
  /\ pool.input.version.images # <<>>
  /\ \A i \in 1..2 : ~FilterAdmits(ComputedCategory(pool.input, i))
  /\ \E d \in pool.done : d.tried = <<>>
  /\ reqs = {}

\* C23 third witness state: a version without a file has returned without a
\* call for its image
C23_WitnessNoFile ==
  /\ pool.input.version.files = <<>>
  /\ pool.input.version.images # <<>>
  /\ \E d \in pool.done : d.tried = <<>>
  /\ reqs = {}
====
